---------------------------- MODULE Spec2Model ----------------------------
(***************************************************************************)
(* A model of the transport engine of libsignal-service-javascript:        *)
(*   - OutgoingMessage  (src/src/outgoing_message.js): padding and the     *)
(*     per-number send state machine with its 409/410 recovery;            *)
(*   - MessageReceiver  (src/src/message_receiver.js): unpad, and the      *)
(*     receive pipeline: handleRequest, the incoming list, the serial      *)
(*     pending chain, the unprocessed cache and the dispatch of events.    *)
(* Every asynchronous suspension point of the code (a Store access, a      *)
(* server call, a ratchet call) ends one action, so the interleavings of   *)
(* the model are the interleavings of the event loop.                      *)
(***************************************************************************)
EXTENDS Integers, Sequences, FiniteSets, TLC

\* ------------------------------------------------------------------------
\* Bounds of the model
\* ------------------------------------------------------------------------

\* Longest run of filler bytes in front of a checked plaintext's tail: the
\* block size and one more, so that lengths on both sides of a block edge occur.
MaxFill == 160

\* Longest tail of arbitrary bytes ending a checked plaintext.
MaxTail == 2

\* The POST counter of one number saturates here (it is a history variable).
MaxPosts == 3

\* Requests the server delivers to one receiver when the order of the
\* pipeline is checked.
MaxReq == 4

\* Requests the server delivers when every shape of envelope is checked.
MaxEnv == 2

\* Calls of connect() on one receiver: the first and the reconnects.
MaxConnect == 2

\* Close events that reach onclose on one receiver.
MaxCloses == 2

\* Items of the Store's unprocessed cache that a startup scan is followed
\* through.
MaxCached == 2

\* Calls of callWorker.
MaxJobs == 3

\* Requests the server delivers when the running count of the tasks is
\* followed past the first 'progress' event.
MaxCounted == 11

\* queue/empty requests and reconnects among them: what restarts the
\* count.
MaxRestarts == 1

\* Tasks that may still wait on the chain when the next of these requests
\* arrives.
MaxLag == 1

\* ------------------------------------------------------------------------
\* State
\* ------------------------------------------------------------------------
VARIABLES
  \* OutgoingMessage fields
  numbers,            \* this.numbers: the recipients, a sequence
  numbersCompleted,   \* this.numbersCompleted
  errors,             \* this.errors: sequence of [number, reason, name]
  successfulNumbers,  \* this.successfulNumbers
  messageBuffer,      \* Content.encode(this.message).finish(): the bytes
  plaintext,          \* this.plaintext, NoPlaintext while unset
  \* the callback given to the constructor
  callbackCalls,      \* how many times it has been invoked
  callbackArg,        \* the argument of its last invocation
  \* the Store and the server as the send engine sees them
  sessions,           \* sessions[n][d]: "none" | "open" | "closed"
  serverDevices,      \* the device ids the server may name for a number
  \* one sendToNumber(n) per number
  snd,                \* snd[n]: the position and locals of sendToNumber(n)
  \* MessageReceiver.unpad applied to a decrypted payload
  unpadded,           \* the outcome of the last unpad call
  \* MessageReceiver fields
  hasConnected,       \* this.hasConnected
  connects,           \* how many times connect() has run
  incoming,           \* this.incoming: a sequence of promises
  pending,            \* this.pending: 0 is Promise.resolve(), k the promise
                      \* of the k-th task added to the chain
  queue,              \* every task added by addToQueue, in order, with its
                      \* settlement
  requests,           \* the requests handed to handleRequest, in arrival
                      \* order, each with the position of its handler
  awaiting,           \* handlers suspended in "await lastPromise", in the
                      \* order they suspended
  waiters,            \* the unsettled Promise.all(incoming) of onEmpty
  jobs,               \* the microtask queue: promise reactions that are due
  events,             \* the events dispatched to the listeners, in order
  cache,              \* ids of the items in the Store's unprocessed cache
  blockedNumbers,     \* store.get("blocked")
  \* the environment of the receiver
  shapes,             \* the envelopes the peers may send
  maxReq,             \* how many requests the server delivers
  \* the startup scan of a receiver constructed with retryCached
  unprocessed,        \* the items the Store held at construction that are
                      \* still in it, in the order getAllUnprocessed
                      \* returns them
  untracked,          \* how many further items the Store holds
  scan,               \* the position and locals of queueAllCached()
  cachedHistory,      \* for every item the Store held at first: the
                      \* attempts it had and how many tasks have run for it
  \* the socket supervisor
  calledClose,        \* this.calledClose
  sockets,            \* every socket getMessageSocket() returned, with
                      \* its WebSocketResource
  socket,             \* this.socket: an index of sockets, 0 when unset
  wsr,                \* this.wsr: an index of sockets, 0 when unset
  probes,             \* the getDevices calls made by onclose
  closes,             \* the close events onclose has been called with
  codes,              \* the codes with which the sockets of this run close
                      \* when the receiver has not asked for one
  inFlight,           \* the requests whose handler had not ended when
                      \* close() was called
  \* the Store as the tasks of the chain change it
  groupWrites,        \* the groups the tasks have written to store.groups
  storeSessions,      \* storeSessions[n][d]: the session record of device
                      \* d of number n: "open", "deleting" while a
                      \* deleteAllSessionsForDevice is under way, "deleted"
  retry,              \* one call of tryMessageAgain: its arguments, the
                      \* time it read, its position and the path it took
  count,              \* this.count
  progress,           \* the counts of the 'progress' events dispatched
  \* the utility worker
  jobCounter,         \* _jobCounter
  workerJobs,         \* the ids that have an entry in _jobs
  futures,            \* the promises callWorker has returned, in the order
                      \* of the calls, each with the id of its job
  timers,             \* the ids whose setTimeout has not fired
  reply               \* the last message given to _utilWorker.onmessage,
                      \* and whether the handler threw

sendVars == <<numbers, numbersCompleted, errors, successfulNumbers,
              callbackCalls, callbackArg, sessions, serverDevices, snd>>
padVars == <<messageBuffer, plaintext, unpadded>>
scanVars == <<unprocessed, untracked, scan, cachedHistory>>
sockVars == <<calledClose, sockets, socket, wsr, probes, closes, codes,
              inFlight>>
storeVars == <<groupWrites, storeSessions>>
workerVars == <<jobCounter, workerJobs, futures, timers, reply>>
recvVars == <<hasConnected, connects, incoming, pending, queue, requests,
              awaiting, waiters, jobs, events, cache, blockedNumbers,
              shapes, maxReq, scanVars, sockVars, storeVars, retry, workerVars, count,
              progress>>
vars == <<sendVars, padVars, recvVars>>

\* ------------------------------------------------------------------------
\* Helpers
\* ------------------------------------------------------------------------
Range(s) == {s[i] : i \in DOMAIN s}

Min(S) == CHOOSE x \in S : \A y \in S : x <= y

\* A set of device ids as the ascending list the server or the Store returns.
RECURSIVE SetToSeq(_)
SetToSeq(S) == IF S = {} THEN <<>>
               ELSE LET m == Min(S) IN <<m>> \o SetToSeq(S \ {m})

\* All sequences over S of length at most n.
RECURSIVE SeqsUpTo(_, _)
SeqsUpTo(S, n) == IF n = 0 THEN {<<>>}
                  ELSE LET prev == SeqsUpTo(S, n - 1)
                       IN prev \cup {Append(s, x) : s \in prev, x \in S}

\* The module has been loaded: no job has been made.
NoReply == [id |-> 0, error |-> FALSE, threw |-> FALSE]

NoWorker ==
  /\ jobCounter = 0
  /\ workerJobs = {}
  /\ futures = <<>>
  /\ timers = {}
  /\ reply = NoReply

\* queueAllCached() is not running: the receiver was constructed without
\* retryCached, and the Store holds no unprocessed item.
NoScan ==
  /\ unprocessed = <<>>
  /\ untracked = 0
  /\ scan = [pc |-> "off", count |-> 0, items |-> <<>>, written |-> {},
             i |-> 0]
  /\ cachedHistory = <<>>

\* The receiver has no socket and close() has not been called.
NoSocket ==
  /\ calledClose = FALSE
  /\ sockets = <<>>
  /\ socket = 0
  /\ wsr = 0
  /\ probes = <<>>
  /\ closes = <<>>
  /\ codes = {}
  /\ inFlight = {}

\* tryMessageAgain has not been called.
NoRetry ==
  [message |-> [sent_at |-> 0], plaintext |-> <<>>, now |-> 0,
   pc |-> "idle", path |-> "none"]

\* No MessageReceiver has been constructed.
NoRecv ==
  /\ NoScan
  /\ NoSocket
  /\ count = 0
  /\ progress = <<>>
  /\ NoWorker
  /\ groupWrites = {}
  /\ storeSessions = <<>>
  /\ hasConnected = FALSE
  /\ connects = 0
  /\ incoming = <<>>
  /\ pending = 0
  /\ queue = <<>>
  /\ requests = <<>>
  /\ awaiting = <<>>
  /\ waiters = {}
  /\ jobs = <<>>
  /\ events = <<>>
  /\ cache = {}
  /\ blockedNumbers = {}
  /\ shapes = {}
  /\ maxReq = 0

\* ------------------------------------------------------------------------
\* Padding codec
\* ------------------------------------------------------------------------
TERMINATOR == 128

BLOCK == 160

NoPlaintext == <<>>

\* The length with its terminator, not rounded up to whole blocks.
getPaddedMessageLengthUnrounded(messageLength) == messageLength + 1

\* Always one block more than the whole blocks of the length.
getPaddedMessageLengthNextBlock(messageLength) ==
  ((messageLength + 1) \div BLOCK + 1) * BLOCK

\* outgoing_message.js getPaddedMessageLength
getPaddedMessageLength(messageLength) ==
  LET messageLengthWithTerminator == messageLength + 1
      messagePartCount == messageLengthWithTerminator \div BLOCK
  IN IF messageLengthWithTerminator % BLOCK # 0
       THEN (messagePartCount + 1) * BLOCK
       ELSE messagePartCount * BLOCK

\* The buffer getPlaintext builds from the encoded message: a zero-filled
\* Uint8Array, the message copied to its front, 0x80 written after it.
PaddedPlaintext(buf) ==
  [i \in 1..(getPaddedMessageLength(Len(buf) + 1) - 1) |->
     IF i <= Len(buf) THEN buf[i]
     ELSE IF i = Len(buf) + 1 THEN TERMINATOR
     ELSE 0]

\* getPlaintext padding what it has cached once more on every later call.
getPlaintextRepadded(cached, buf) ==
  IF cached = NoPlaintext THEN PaddedPlaintext(buf)
  ELSE PaddedPlaintext(cached)

\* outgoing_message.js getPlaintext: computed once, then cached.
getPlaintext(cached, buf) ==
  IF cached = NoPlaintext THEN PaddedPlaintext(buf) ELSE cached

\* message_receiver.js unpad.  The loop runs from the last byte downwards
\* and ends at the first byte that is not 0x00, which is the last non-zero
\* byte of the data: 0x80 there gives the bytes before it, any other value
\* throws "Invalid padding", and data without a non-zero byte leaves the
\* result undefined.
LastNonZero(paddedPlaintext) ==
  LET nz == {i \in DOMAIN paddedPlaintext : paddedPlaintext[i] # 0}
  IN IF nz = {} THEN 0 ELSE CHOOSE i \in nz : \A k \in nz : k <= i

\* unpad scanning from the front: it stops at the first 0x80 it meets.
unpadForward(paddedData) ==
  LET t == {i \in DOMAIN paddedData : paddedData[i] = TERMINATOR}
  IN IF t = {} THEN [kind |-> "undefined", bytes |-> <<>>]
     ELSE [kind |-> "plaintext",
           bytes |-> SubSeq(paddedData, 1, Min(t) - 1)]

\* unpad taking whatever non-zero byte comes last for the terminator.
unpadAnyTerminator(paddedData) ==
  LET i == LastNonZero(paddedData)
  IN IF i = 0 THEN [kind |-> "undefined", bytes |-> <<>>]
     ELSE [kind |-> "plaintext", bytes |-> SubSeq(paddedData, 1, i - 1)]

unpad(paddedData) ==
  LET i == LastNonZero(paddedData)
  IN IF i = 0 THEN [kind |-> "undefined", bytes |-> <<>>]
     ELSE IF paddedData[i] = TERMINATOR
       THEN [kind |-> "plaintext", bytes |-> SubSeq(paddedData, 1, i - 1)]
     ELSE [kind |-> "Invalid padding", bytes |-> <<>>]

NotUnpadded == [kind |-> "none", bytes |-> <<>>]

\* The bytes a checked plaintext is made of: zero, the terminator, another.
ByteVals == {0, 1, TERMINATOR}

\* The checked plaintexts: a run of equal bytes followed by an arbitrary tail.
PlaintextInputs ==
  {[i \in 1..k |-> f] \o t :
     k \in 0..MaxFill, f \in ByteVals, t \in SeqsUpTo(ByteVals, MaxTail)}

\* ------------------------------------------------------------------------
\* Send engine: the Store, the server and the errors
\* ------------------------------------------------------------------------
NumberA == "+15550001111"

NumberB == "+15550002222"

\* Every device id the model knows; serverDevices is the part of it in use.
AllDeviceIds == {1, 2, 3}

\* Session records of one number: the listed devices open, the rest absent.
OpenSessions(open) ==
  [d \in AllDeviceIds |-> IF d \in open THEN "open" ELSE "none"]

\* The checked sends: the recipient list, the device ids the server may name
\* and the session records a number may start with.  One number with three
\* device ids, or a batch of two numbers with two.
SendInputs ==
  { [numbers |-> <<NumberA>>, serverDevices |-> {1, 2, 3},
     stores |-> {OpenSessions({}), OpenSessions({1}), OpenSessions({1, 2}),
                 [OpenSessions({1, 2}) EXCEPT ![2] = "closed"]}],
    [numbers |-> <<NumberA, NumberB>>, serverDevices |-> {1, 2},
     stores |-> {OpenSessions({}), OpenSessions({1})}] }

\* store.getDeviceIds(number): the devices with a session record.
getDeviceIds(n) == {d \in AllDeviceIds : sessions[n][d] # "none"}

\* The reasons registerError is given.
ReasonEmptyList == "Got empty device list when loading device keys"

ReasonRetryLimit == "Hit retry limit attempting to reload device list"

ReasonIdentity == "Identity key changed"

ReasonSend == "Failed to create or send message"

ReasonKeys == "Failed to retrieve new device keys for number"

\* Errors as registerError sees them: a name and, for an HTTPError, its code.
NullError == [name |-> "null", code |-> 0, message |-> ""]

HTTPError(code) == [name |-> "HTTPError", code |-> code, message |-> ""]

NamedError(name) == [name |-> name, code |-> 0, message |-> ""]

\* What the ratchet throws from processPreKey or encrypt on a changed key.
IdentityKeyChanged ==
  [name |-> "Error", code |-> 0, message |-> "Identity key changed"]

\* What the server answers to sendMessages for the posted devices: success,
\* 409 with extra and missing devices, 410 with stale devices, 404, another
\* HTTP error, or no answer at all (code -1, a network error).
PostResponses(devs) ==
  {[code |-> c, extra |-> {}, missing |-> {}, stale |-> {}] :
      c \in {200, 404, 500, -1}}
  \cup {[code |-> 409, extra |-> xm[1], missing |-> xm[2], stale |-> {}] :
      xm \in {p \in (SUBSET devs) \X (SUBSET (serverDevices \ devs)) :
                p[1] \cup p[2] # {}}}
  \cup {[code |-> 410, extra |-> {}, missing |-> {}, stale |-> s] :
      s \in (SUBSET devs) \ {{}}}

NoResponse == [code |-> 0, extra |-> {}, missing |-> {}, stale |-> {}]

\* The first POST as the history keeps it.
NoPost == [devs |-> {}, resp |-> NoResponse]

\* sendToNumber(n) before it is called.
IdleSend ==
  [pc |-> "idle", recurse |-> FALSE, todo |-> <<>>, devs |-> {},
   err |-> NoResponse,
   \* history: POSTs made (saturating), the first POST, the code of the
   \* last answer, the key fetches since the last POST, the error that
   \* processPreKey, the key fetch or encrypt threw
   posts |-> 0, first |-> NoPost, lastCode |-> 0, fetched |-> <<>>,
   thrown |-> NullError,
   \* history: what the key fetches since the last POST ended in
   answers |-> <<>>]

\* The callback test comparing with the first completion instead of the last.
CallbackDueFirst(completed, total) == completed >= 1

\* outgoing_message.js numberCompleted: the test that fires the callback.
CallbackDue(completed, total) == completed >= total

\* outgoing_message.js numberCompleted
NumberCompleted ==
  /\ numbersCompleted' = numbersCompleted + 1
  /\ IF CallbackDue(numbersCompleted + 1, Len(numbers))
       THEN /\ callbackCalls' = callbackCalls + 1
            /\ callbackArg' = [successfulNumbers |-> successfulNumbers',
                               errors |-> errors']
       ELSE UNCHANGED <<callbackCalls, callbackArg>>

\* registerError leaving out error.number = number.
RegisteredErrorUnnumbered(number, reason, error) ==
  [number |-> "", reason |-> reason,
   name |-> IF error = NullError \/ (error.name = "HTTPError" /\ error.code # 404)
              THEN "OutgoingMessageError" ELSE error.name]

\* outgoing_message.js registerError: the error kept for (reason, error).
RegisteredError(number, reason, error) ==
  [number |-> number, reason |-> reason,
   name |-> IF error = NullError \/ (error.name = "HTTPError" /\ error.code # 404)
              THEN "OutgoingMessageError" ELSE error.name]

\* registerError keeping the error without completing the number.
registerErrorOnly(n, reason, error) ==
  /\ errors' = Append(errors, RegisteredError(n, reason, error))
  /\ UNCHANGED <<successfulNumbers, numbersCompleted, callbackCalls,
                 callbackArg>>

\* outgoing_message.js registerError, ending sendToNumber(n)
registerError(n, reason, error) ==
  /\ errors' = Append(errors, RegisteredError(n, reason, error))
  /\ UNCHANGED successfulNumbers
  /\ NumberCompleted

\* A catch of sendToNumber that registers every error as it is.
SendToNumberCatchAll(n, error) == registerError(n, ReasonKeys, error)

\* sendToNumber(n) ends in s after the error was thrown.
Thrown(s, error) == [s EXCEPT !.pc = "done", !.todo = <<>>, !.thrown = error]

\* The catch of sendToNumber: an "Identity key changed" error becomes an
\* OutgoingIdentityKeyError, every other error is registered as it is.
SendToNumberCatch(n, error) ==
  IF error.message = "Identity key changed"
    THEN registerError(n, ReasonIdentity, NamedError("OutgoingIdentityKeyError"))
    ELSE registerError(n, ReasonKeys, error)

Done(n, s) == [s EXCEPT !.pc = "done", !.todo = <<>>]

\* ------------------------------------------------------------------------
\* Send engine: sendToNumber(n), one action per suspension point
\* ------------------------------------------------------------------------

\* The caller starts sendToNumber(n), once per number.
SendToNumber(n) ==
  /\ snd[n].pc = "idle"
  /\ snd' = [snd EXCEPT ![n].pc = "stale"]
  /\ UNCHANGED recvVars
  /\ UNCHANGED <<numbers, numbersCompleted, errors, successfulNumbers,
                 callbackCalls, callbackArg, sessions, serverDevices, padVars>>

\* outgoing_message.js getStaleDeviceIdsForNumber: [1] for an unknown number,
\* else the devices without an open session.
StaleDeviceIds(n) ==
  IF getDeviceIds(n) = {} THEN <<1>>
  ELSE SetToSeq({d \in getDeviceIds(n) : sessions[n][d] # "open"})

\* sendToNumber: the stale devices are known, getKeysForNumber starts and
\* reloadDevicesAndSend(number, true) is chained behind it.
GetStaleDeviceIdsForNumber(n) ==
  /\ snd[n].pc = "stale"
  /\ snd' = [snd EXCEPT ![n].pc = "keys", ![n].todo = StaleDeviceIds(n),
                        ![n].recurse = TRUE]
  /\ UNCHANGED recvVars
  /\ UNCHANGED <<numbers, numbersCompleted, errors, successfulNumbers,
                 callbackCalls, callbackArg, sessions, serverDevices, padVars>>

\* A 404 for every device taken for an unregistered user.
UnregisteredAny(device) == TRUE

\* getKeysForNumber: the device whose 404 means that the user is not
\* registered; the 404 of another device only removes that device.
Unregistered(device) == device = 1

\* What one server.getKeysForNumber(number, device) with its processPreKey
\* can end in.
KeyOutcomes == {"ok", "404", "500", "identity"}

\* outgoing_message.js getKeysForNumber with a device list: the next device of
\* the list is fetched and its pre-key processed.
GetKeysForNumber(n, outcome) ==
  /\ snd[n].pc = "keys"
  /\ snd[n].todo # <<>>
  /\ LET d == Head(snd[n].todo)
         s == [snd[n] EXCEPT !.fetched = Append(@, d),
                             !.answers = Append(@, outcome)]
     IN CASE outcome = "ok" ->
               \* processPreKey builds the session
               /\ sessions' = [sessions EXCEPT ![n][d] = "open"]
               /\ snd' = [snd EXCEPT ![n] = [s EXCEPT !.todo = Tail(@)]]
               /\ UNCHANGED <<numbersCompleted, errors, successfulNumbers,
                              callbackCalls, callbackArg>>
          [] outcome = "404" /\ ~Unregistered(d) ->
               \* removeDeviceIdsForNumber(number, [device]), then go on
               /\ sessions' = [sessions EXCEPT ![n][d] = "none"]
               /\ snd' = [snd EXCEPT ![n] = [s EXCEPT !.todo = Tail(@)]]
               /\ UNCHANGED <<numbersCompleted, errors, successfulNumbers,
                              callbackCalls, callbackArg>>
          [] outcome = "404" /\ Unregistered(d) ->
               /\ SendToNumberCatch(n, NamedError("UnregisteredUserError"))
               /\ snd' = [snd EXCEPT ![n] =
                            Thrown(s, NamedError("UnregisteredUserError"))]
               /\ UNCHANGED sessions
          [] outcome = "500" ->
               /\ SendToNumberCatch(n, HTTPError(500))
               /\ snd' = [snd EXCEPT ![n] = Thrown(s, HTTPError(500))]
               /\ UNCHANGED sessions
          [] outcome = "identity" ->
               /\ SendToNumberCatch(n, IdentityKeyChanged)
               /\ snd' = [snd EXCEPT ![n] = Thrown(s, IdentityKeyChanged)]
               /\ UNCHANGED sessions
  /\ UNCHANGED recvVars
  /\ UNCHANGED <<numbers, serverDevices, padVars>>

\* outgoing_message.js reloadDevicesAndSend: all keys are there, the device
\* list is read back from the Store.
ReloadDevicesAndSend(n) ==
  /\ snd[n].pc = "keys"
  /\ snd[n].todo = <<>>
  /\ IF getDeviceIds(n) = {}
       THEN /\ registerError(n, ReasonEmptyList, NullError)
            /\ snd' = [snd EXCEPT ![n] = Done(n, @)]
       ELSE /\ snd' = [snd EXCEPT ![n].pc = "encrypt",
                                  ![n].devs = getDeviceIds(n)]
            /\ UNCHANGED <<numbersCompleted, errors, successfulNumbers,
                           callbackCalls, callbackArg>>
  /\ UNCHANGED recvVars
  /\ UNCHANGED <<numbers, sessions, serverDevices, padVars>>

\* What encrypting the plaintext to every device of the list can end in.
EncryptOutcomes == {"ok", "identity", "error"}

\* outgoing_message.js doSendMessage, up to the POST: getPlaintext, then one
\* encrypt per device.
Encrypt(n, outcome) ==
  /\ snd[n].pc = "encrypt"
  /\ plaintext' = getPlaintext(plaintext, messageBuffer)
  /\ CASE outcome = "ok" ->
            /\ snd' = [snd EXCEPT ![n].pc = "post"]
            /\ UNCHANGED <<numbersCompleted, errors, successfulNumbers,
                           callbackCalls, callbackArg>>
       [] outcome = "identity" ->
            \* rethrown by doSendMessage, caught by sendToNumber
            /\ SendToNumberCatch(n, IdentityKeyChanged)
            /\ snd' = [snd EXCEPT ![n] = Thrown(@, IdentityKeyChanged)]
       [] outcome = "error" ->
            /\ registerError(n, ReasonSend, NamedError("Error"))
            /\ snd' = [snd EXCEPT ![n] = Thrown(@, NamedError("Error"))]
  /\ UNCHANGED recvVars
  /\ UNCHANGED <<numbers, sessions, serverDevices, messageBuffer, unpadded>>

\* outgoing_message.js transmitMessage: the error doSendMessage gets for a
\* failed sendMessages.
TransmitError(code) ==
  IF code = -1 THEN NamedError("Error")
  ELSE IF code \in {409, 410} THEN HTTPError(code)
  ELSE IF code = 404 THEN NamedError("UnregisteredUserError")
  ELSE NamedError("SendMessageNetworkError")

\* The history of the POSTs of one number.
Posted(s, resp) ==
  [s EXCEPT !.posts = IF @ < MaxPosts THEN @ + 1 ELSE @,
            !.first = IF s.posts = 0 THEN [devs |-> s.devs, resp |-> resp]
                      ELSE @,
            !.lastCode = resp.code,
            !.fetched = <<>>,
            !.answers = <<>>]

\* outgoing_message.js doSendMessage: the answer to the POST.
Post(n, resp) ==
  /\ snd[n].pc = "post"
  /\ LET s == Posted(snd[n], resp)
     IN CASE resp.code = 200 ->
               /\ successfulNumbers' = Append(successfulNumbers, n)
               /\ UNCHANGED errors
               /\ NumberCompleted
               /\ snd' = [snd EXCEPT ![n] = Done(n, s)]
          [] resp.code \in {409, 410} /\ ~snd[n].recurse ->
               /\ registerError(n, ReasonRetryLimit, TransmitError(resp.code))
               /\ snd' = [snd EXCEPT ![n] = Done(n, s)]
          [] resp.code \in {409, 410} /\ snd[n].recurse ->
               /\ snd' = [snd EXCEPT ![n] = [s EXCEPT !.pc = "recover",
                                                      !.err = resp]]
               /\ UNCHANGED <<numbersCompleted, errors, successfulNumbers,
                              callbackCalls, callbackArg>>
          [] OTHER ->
               /\ registerError(n, ReasonSend, TransmitError(resp.code))
               /\ snd' = [snd EXCEPT ![n] = Done(n, s)]
  /\ UNCHANGED recvVars
  /\ UNCHANGED <<numbers, sessions, serverDevices, padVars>>

\* outgoing_message.js removeDeviceIdsForNumber
removeDeviceIdsForNumber(ss, n, deviceIdsToRemove) ==
  [ss EXCEPT ![n] = [d \in AllDeviceIds |->
                       IF d \in deviceIdsToRemove THEN "none" ELSE ss[n][d]]]

\* closeOpenSessionForDevice on the cipher of every stale device.
closeOpenSessions(ss, n, staleDevices) ==
  [ss EXCEPT ![n] = [d \in AllDeviceIds |->
                       IF d \in staleDevices /\ ss[n][d] = "open"
                         THEN "closed" ELSE ss[n][d]]]

\* A retry that is always allowed to retry again.
RetryRecurseAlways(code) == TRUE

\* A retry that reloads the device list only once, whatever the code.
RetryRecurseNever(code) == FALSE

\* The recurse argument of the retry after a 409 or a 410.
RetryRecurse(code) == code = 409

\* outgoing_message.js doSendMessage, the 409/410 recovery: the device
\* list is reconciled and getKeysForNumber starts for the devices to reset.
Recover(n) ==
  /\ snd[n].pc = "recover"
  /\ LET e == snd[n].err
         resetDevices == IF e.code = 410 THEN e.stale ELSE e.missing
     IN /\ sessions' = IF e.code = 409
                         THEN removeDeviceIdsForNumber(sessions, n, e.extra)
                         ELSE closeOpenSessions(sessions, n, e.stale)
        /\ snd' = [snd EXCEPT ![n].pc = "keys",
                              ![n].todo = SetToSeq(resetDevices),
                              ![n].recurse = RetryRecurse(e.code)]
  /\ UNCHANGED recvVars
  /\ UNCHANGED <<numbers, numbersCompleted, errors, successfulNumbers,
                 callbackCalls, callbackArg, serverDevices, padVars>>

NumberSet == Range(numbers)

\* The encoded message of the checked sends.
SendMessageBuffer == <<10, 1>>

InitSend ==
  /\ \E inp \in SendInputs :
       /\ numbers = inp.numbers
       /\ serverDevices = inp.serverDevices
       /\ sessions \in [Range(inp.numbers) -> inp.stores]
       /\ snd = [n \in Range(inp.numbers) |-> IdleSend]
  /\ numbersCompleted = 0
  /\ errors = <<>>
  /\ successfulNumbers = <<>>
  /\ callbackCalls = 0
  /\ callbackArg = [successfulNumbers |-> <<>>, errors |-> <<>>]
  /\ messageBuffer = SendMessageBuffer
  /\ plaintext = NoPlaintext
  /\ unpadded = NotUnpadded
  /\ NoRecv
  /\ retry = NoRetry

NextSend ==
  \/ \E n \in NumberSet : SendToNumber(n)
  \/ \E n \in NumberSet : GetStaleDeviceIdsForNumber(n)
  \/ \E n \in NumberSet, outcome \in KeyOutcomes : GetKeysForNumber(n, outcome)
  \/ \E n \in NumberSet : ReloadDevicesAndSend(n)
  \/ \E n \in NumberSet, outcome \in EncryptOutcomes : Encrypt(n, outcome)
  \/ \E n \in NumberSet : \E resp \in PostResponses(snd[n].devs) : Post(n, resp)
  \/ \E n \in NumberSet : Recover(n)

SpecSend == InitSend /\ [][NextSend]_vars

\* A message for one number.
InitSendOne == InitSend /\ Len(numbers) = 1

\* The lists without repetition of the elements of S, in every order.
RECURSIVE ListsOf(_)
ListsOf(S) ==
  IF S = {} THEN {<<>>}
  ELSE UNION {{<<d>> \o l : l \in ListsOf(S \ {d})} : d \in S}

\* sendToNumber for one number when getStaleDeviceIdsForNumber has
\* resolved: the devices with a session record that is not open, in the
\* order in which their hasOpenSession calls resolved, or [1] when the
\* Store has no record for the number.
InitKeys ==
  /\ numbers = <<NumberA>>
  /\ serverDevices = AllDeviceIds
  /\ \E stale \in SUBSET AllDeviceIds :
       \E open \in SUBSET (AllDeviceIds \ stale) :
         \E list \in ListsOf(stale) :
           /\ stale = {} => open = {}
           /\ sessions =
                (NumberA :> [d \in AllDeviceIds |->
                               IF d \in stale THEN "closed"
                               ELSE IF d \in open THEN "open" ELSE "none"])
           /\ snd = (NumberA :>
                      [IdleSend EXCEPT
                         !.pc = "keys", !.recurse = TRUE,
                         !.todo = IF stale = {} THEN <<1>> ELSE list])
  /\ numbersCompleted = 0
  /\ errors = <<>>
  /\ successfulNumbers = <<>>
  /\ callbackCalls = 0
  /\ callbackArg = [successfulNumbers |-> <<>>, errors |-> <<>>]
  /\ messageBuffer = SendMessageBuffer
  /\ plaintext = NoPlaintext
  /\ unpadded = NotUnpadded
  /\ NoRecv
  /\ retry = NoRetry

\* sendToNumber from its getKeysForNumber call on.
NextKeys ==
  \/ \E n \in NumberSet, outcome \in KeyOutcomes : GetKeysForNumber(n, outcome)
  \/ \E n \in NumberSet : ReloadDevicesAndSend(n)
  \/ \E n \in NumberSet, outcome \in EncryptOutcomes : Encrypt(n, outcome)
  \/ \E n \in NumberSet : \E resp \in PostResponses(snd[n].devs) : Post(n, resp)
  \/ \E n \in NumberSet : Recover(n)

SpecKeys == InitKeys /\ [][NextKeys]_vars

\* The event loop runs every continuation that is ready, and the server
\* answers every request.
SpecSendOneFair == InitSendOne /\ [][NextSend]_vars /\ WF_vars(NextSend)

\* ------------------------------------------------------------------------
\* The padding round trip: getPlaintext on the sender, unpad on the receiver
\* ------------------------------------------------------------------------

\* No OutgoingMessage is being sent.
NoSend ==
  /\ numbers = <<>>
  /\ serverDevices = {}
  /\ sessions = <<>>
  /\ snd = <<>>
  /\ numbersCompleted = 0
  /\ errors = <<>>
  /\ successfulNumbers = <<>>
  /\ callbackCalls = 0
  /\ callbackArg = [successfulNumbers |-> <<>>, errors |-> <<>>]

InitPad ==
  /\ NoSend
  /\ NoRecv
  /\ retry = NoRetry
  /\ messageBuffer \in PlaintextInputs
  /\ plaintext = NoPlaintext
  /\ unpadded = NotUnpadded

\* outgoing_message.js getPlaintext, called for an encoded message.
GetPlaintextCall ==
  /\ plaintext = NoPlaintext
  /\ plaintext' = getPlaintext(plaintext, messageBuffer)
  /\ UNCHANGED recvVars
  /\ UNCHANGED <<sendVars, messageBuffer, unpadded>>

\* message_receiver.js decrypt: the ratchet hands back the padded plaintext
\* the sender encrypted, and unpad is applied to it.
UnpadCall ==
  /\ plaintext # NoPlaintext
  /\ unpadded = NotUnpadded
  /\ unpadded' = unpad(plaintext)
  /\ UNCHANGED recvVars
  /\ UNCHANGED <<sendVars, messageBuffer, plaintext>>

NextPad == GetPlaintextCall \/ UnpadCall

SpecPad == InitPad /\ [][NextPad]_vars

\* unpad applied to whatever a ratchet hands back, padded or not: the
\* payload is any of the checked byte strings, the empty one among them.
InitUnpad ==
  /\ NoSend
  /\ NoRecv
  /\ retry = NoRetry
  /\ messageBuffer = <<>>
  /\ plaintext \in PlaintextInputs
  /\ unpadded = NotUnpadded

UnpadPayload ==
  /\ unpadded = NotUnpadded
  /\ unpadded' = unpad(plaintext)
  /\ UNCHANGED recvVars
  /\ UNCHANGED <<sendVars, messageBuffer, plaintext>>

SpecUnpad == InitUnpad /\ [][UnpadPayload]_vars

\* ------------------------------------------------------------------------
\* MessageReceiver: promises, envelopes and events
\* ------------------------------------------------------------------------

\* The promises the receiver holds in this.incoming and this.pending.
Resolved == [t |-> "Promise.resolve", i |-> 0]

\* _.last(this.incoming) of an empty list.
Undefined == [t |-> "undefined", i |-> 0]

\* The promise handleRequest pushes on this.incoming for request i.
HandlerPromise(i) == [t |-> "handler", i |-> i]

\* The promise addToQueue leaves in this.pending for the k-th task.
ChainPromise(k) == [t |-> "chain", i |-> k]

\* The promise of queueAllCached(), which the constructor leaves in
\* this.pending when retryCached is set.
ScanPromise == [t |-> "queueAllCached", i |-> 0]

\* this.pending as a promise.
PendingPromise(p) ==
  IF p = 0 THEN Resolved ELSE IF p < 0 THEN ScanPromise ELSE ChainPromise(p)

\* "pending", "resolved" or "rejected": the state of promise p when the
\* requests are rq and the chain is q. A handler's promise never rejects:
\* its .catch turns every failure into an error event.
Settlement(p, rq, q) ==
  CASE p.t = "handler" -> IF rq[p.i].stage = "done" THEN "resolved"
                          ELSE "pending"
    [] p.t = "chain"   -> q[p.i].result
    [] p.t = "queueAllCached" -> IF scan.pc = "done" THEN "resolved"
                                 ELSE "pending"
    [] OTHER           -> "resolved"

\* The receiver's own address and two peers.
OurNumber == "+15550000000"
PeerNumber == "+15550003333"
BlockedNumber == "+15550004444"
OurDeviceId == 1

\* The bits of DataMessage.Flags that processDecrypted tests.
KnownFlags == {"END_SESSION", "EXPIRATION_TIMER_UPDATE", "PROFILE_KEY_UPDATE"}

\* The bits a flags field may have set: the known ones and one other. A
\* flags value is the set of its bits, so flags & FLAGS.X is non-zero
\* when X is in the set and flags !== 0 when the set is not empty.
FlagBits == KnownFlags \cup {"other"}

\* A data message in a Content body from a peer: the envelope the others
\* are variations of. text and attachments are the body and the number
\* of attachments of the data message.
DataEnvelope ==
  [type |-> "CIPHERTEXT", source |-> PeerNumber, sourceDevice |-> 1,
   body |-> "content", ratchet |-> "ok", payload |-> "dataMessage",
   n |-> 0, flags |-> {}, group |-> "none", blob |-> "ok",
   numbers |-> {}, text |-> "hello", attachments |-> 0]

\* A sync message from another device of the receiver's account.
SyncEnvelope ==
  [DataEnvelope EXCEPT !.source = OurNumber, !.sourceDevice = 2,
                       !.payload = "syncMessage.sent"]

\* The envelopes of the order checks: one that is dispatched, one that the
\* ratchet cannot decrypt, one from a blocked number.
OrderShapes ==
  { DataEnvelope,
    [DataEnvelope EXCEPT !.ratchet = "fail"],
    [DataEnvelope EXCEPT !.source = BlockedNumber] }

\* One envelope for every branch of handleEnvelope and of what it calls.
AllShapes ==
  OrderShapes \cup
  { [DataEnvelope EXCEPT !.type = "PREKEY_BUNDLE"],
    [DataEnvelope EXCEPT !.type = "UNKNOWN"],
    [DataEnvelope EXCEPT !.type = "RECEIPT"],
    [DataEnvelope EXCEPT !.body = "none"],
    [DataEnvelope EXCEPT !.body = "legacyMessage"],
    [DataEnvelope EXCEPT !.body = "legacyMessage", !.payload = "undecodable"],
    [DataEnvelope EXCEPT !.payload = "undecodable"],
    [DataEnvelope EXCEPT !.payload = "nullMessage"],
    [DataEnvelope EXCEPT !.payload = "callMessage"],
    [DataEnvelope EXCEPT !.payload = "receiptMessage.DELIVERY", !.n = 2],
    [DataEnvelope EXCEPT !.payload = "receiptMessage.READ", !.n = 1],
    [DataEnvelope EXCEPT !.payload = "receiptMessage.READ", !.n = 0],
    [DataEnvelope EXCEPT !.payload = "none"],
    [DataEnvelope EXCEPT !.flags = {"other"}],
    [DataEnvelope EXCEPT !.group = "blocked"],
    [DataEnvelope EXCEPT !.group = "unknownType"],
    [DataEnvelope EXCEPT !.payload = "syncMessage.sent"],
    SyncEnvelope,
    [SyncEnvelope EXCEPT !.sourceDevice = OurDeviceId],
    [SyncEnvelope EXCEPT !.flags = {"other"}],
    [SyncEnvelope EXCEPT !.group = "blocked"],
    [SyncEnvelope EXCEPT !.group = "blockedQuit"],
    [SyncEnvelope EXCEPT !.payload = "syncMessage.contacts", !.n = 1],
    [SyncEnvelope EXCEPT !.payload = "syncMessage.contacts", !.blob = "fail"],
    [SyncEnvelope EXCEPT !.payload = "syncMessage.groups", !.n = 1],
    [SyncEnvelope EXCEPT !.payload = "syncMessage.blocked",
                         !.numbers = {BlockedNumber}],
    [SyncEnvelope EXCEPT !.payload = "syncMessage.blocked"],
    [SyncEnvelope EXCEPT !.payload = "syncMessage.request"],
    [SyncEnvelope EXCEPT !.payload = "syncMessage.read", !.n = 2],
    [SyncEnvelope EXCEPT !.payload = "syncMessage.read", !.n = 0],
    [SyncEnvelope EXCEPT !.payload = "syncMessage.verified"],
    [SyncEnvelope EXCEPT !.payload = "syncMessage.configuration"],
    [SyncEnvelope EXCEPT !.payload = "syncMessage.none"] }

\* What Envelope.decode shows of an envelope before its body is decrypted.
Outer(env) ==
  [type |-> env.type, source |-> env.source,
   sourceDevice |-> env.sourceDevice, body |-> env.body]

NoEnvelope ==
  [type |-> "none", source |-> "none", sourceDevice |-> 0, body |-> "none"]

\* An event carries no message.
NoMessage == [body |-> "none", attachments |-> 0, group |-> "none"]

\* An event as a listener sees it: its type, the request whose envelope it
\* is about (0 when it is about none), whether it carries a confirm()
\* closure, and whether the listener has called it.
Ev(type, req, confirm) ==
  [type |-> type, req |-> req, confirm |-> confirm, confirmed |-> FALSE,
   message |-> NoMessage]

\* The event types that report a failure.
ErrorTypes == {"error"}

\* n copies of x.
Copies(n, x) == [j \in 1..n |-> x]

\* What running a task did: the events it dispatched (type and whether the
\* event has a confirm closure), whether the task itself removed the item
\* from the cache, how its promise settled, the new blocked list (a
\* sequence of at most one set), the message its 'message' or 'sent'
\* event carries, the groups it wrote to store.groups, and the number it
\* called handleEndSession for (a sequence of at most one number).
Outcome(evs, removed, result) ==
  [events |-> evs, removed |-> removed, result |-> result, blocked |-> <<>>,
   message |-> NoMessage, groups |-> {}, endSession |-> <<>>]

Dispatched(evs) == Outcome(evs, FALSE, "resolved")
Dropped == Outcome(<<>>, TRUE, "resolved")
RemovedAndThrew == Outcome(<<>>, TRUE, "rejected")
Threw == Outcome(<<>>, FALSE, "rejected")

\* ------------------------------------------------------------------------
\* MessageReceiver: what a task of the chain does with an envelope
\* ------------------------------------------------------------------------

\* processDecrypted(envelope, decrypted, source) for the data message of
\* env: the message it resolves with, or that it throws and whether it
\* removed the item from the cache first, and the groups it wrote. The
\* three known bits are tested in turn, each with &, and only a value
\* with none of them set is compared with 0. A group is "blocked" (a
\* DELIVER to a group the Store knows, which is blocked), "blockedQuit"
\* (a QUIT of such a group, which the Store is written for) or
\* "unknownType"; every attachment is downloaded.
processDecrypted(env) ==
  LET cleared == [body |-> "null", attachments |-> 0, group |-> env.group]
      kept == [body |-> env.text, attachments |-> env.attachments,
               group |-> env.group]
      afterFlags == IF env.flags \cap {"EXPIRATION_TIMER_UPDATE",
                                      "PROFILE_KEY_UPDATE"} # {}
                      THEN cleared ELSE kept
      message == IF afterFlags.group = "none"
                   THEN [afterFlags EXCEPT !.group = "null"]
                 ELSE IF afterFlags.group = "blockedQuit"
                   THEN cleared
                 ELSE afterFlags
  IN IF "END_SESSION" \in env.flags
       THEN [result |-> "resolved", removed |-> FALSE, groups |-> {},
             message |-> [body |-> "null", attachments |-> 0,
                          group |-> "null"]]
     ELSE IF env.flags \cap KnownFlags = {} /\ env.flags # {}
       THEN [result |-> "rejected", removed |-> FALSE, groups |-> {},
             message |-> NoMessage]
     ELSE IF env.group = "unknownType"
       THEN [result |-> "rejected", removed |-> TRUE, groups |-> {},
             message |-> NoMessage]
     ELSE IF afterFlags.attachments > 0 /\ env.blob = "fail"
       THEN [result |-> "rejected", removed |-> FALSE,
             groups |-> IF env.group = "blockedQuit" THEN {env.group}
                        ELSE {},
             message |-> NoMessage]
     ELSE [result |-> "resolved", removed |-> FALSE,
           groups |-> IF env.group = "blockedQuit" THEN {env.group} ELSE {},
           message |-> message]

\* handleDataMessage (event "message") and handleSentMessage (event
\* "sent"): handleEndSession when the END_SESSION bit is set, then
\* processDecrypted, the blocked-group test and the event. number is the
\* number handleEndSession is called with.
ProcessAndDispatch(env, type, number) ==
  LET pd == processDecrypted(env)
      ends == IF "END_SESSION" \in env.flags THEN <<number>> ELSE <<>>
      out == IF pd.result = "rejected"
               THEN IF pd.removed THEN RemovedAndThrew ELSE Threw
             ELSE IF \/ pd.message.group = "blocked"
                     \/ pd.message.group = "blockedQuit"
                        /\ env.source # OurNumber
               THEN Dropped
             ELSE [Dispatched(<<[type |-> type, confirm |-> TRUE]>>)
                     EXCEPT !.message = pd.message]
  IN [out EXCEPT !.groups = pd.groups, !.endSession = ends]

handleDataMessage(env) == ProcessAndDispatch(env, "message", env.source)

\* The destination of every sent transcript is the peer.
handleSentMessage(env) == ProcessAndDispatch(env, "sent", PeerNumber)

handleReceiptMessage(env) ==
  IF env.payload = "receiptMessage.DELIVERY"
    THEN Dispatched(Copies(env.n, [type |-> "delivery", confirm |-> TRUE]))
    ELSE Dispatched(Copies(env.n, [type |-> "read", confirm |-> TRUE]))

handleContacts(env) ==
  IF env.blob = "fail" THEN Threw
  ELSE Outcome(Copies(env.n, [type |-> "contact", confirm |-> FALSE])
                 \o <<[type |-> "contactsync", confirm |-> FALSE]>>,
               TRUE, "resolved")

handleGroups(env) ==
  IF env.blob = "fail" THEN Threw
  ELSE [Dispatched(Copies(env.n, [type |-> "group", confirm |-> TRUE])
                     \o <<[type |-> "groupsync", confirm |-> TRUE]>>)
          EXCEPT !.groups = IF env.n > 0 THEN {"groupDetails"} ELSE {}]

handleBlocked(env) == [Dropped EXCEPT !.blocked = <<env.numbers>>]

handleRead(env) ==
  Dispatched(Copies(env.n, [type |-> "readSync", confirm |-> TRUE]))

\* Every envelope of the receiver's number passes.
fromOwnNumber(env) == env.source = OurNumber

\* The two tests handleSyncMessage starts with: the envelope comes from
\* the receiver's number (===) and not from its own device (==, which
\* compares a device id given as a string by its number).
fromOtherOwnDevice(env) ==
  env.source = OurNumber /\ env.sourceDevice # OurDeviceId

handleSyncMessage(env) ==
  IF ~fromOtherOwnDevice(env) THEN Threw
  ELSE CASE env.payload = "syncMessage.sent" -> handleSentMessage(env)
         [] env.payload = "syncMessage.contacts" -> handleContacts(env)
         [] env.payload = "syncMessage.groups" -> handleGroups(env)
         [] env.payload = "syncMessage.blocked" -> handleBlocked(env)
         [] env.payload = "syncMessage.request" -> Dropped
         [] env.payload = "syncMessage.read" /\ env.n > 0 -> handleRead(env)
         [] env.payload = "syncMessage.verified" ->
              Dispatched(<<[type |-> "verified", confirm |-> TRUE]>>)
         [] env.payload = "syncMessage.configuration" ->
              Dispatched(<<[type |-> "configuration", confirm |-> TRUE]>>)
         [] OTHER -> Threw

SyncPayloads ==
  {"syncMessage.sent", "syncMessage.contacts", "syncMessage.groups",
   "syncMessage.blocked", "syncMessage.request", "syncMessage.read",
   "syncMessage.verified", "syncMessage.configuration", "syncMessage.none"}

innerHandleContentMessage(env) ==
  CASE env.payload = "undecodable" -> Threw
    [] env.payload \in SyncPayloads -> handleSyncMessage(env)
    [] env.payload = "dataMessage" -> handleDataMessage(env)
    [] env.payload = "nullMessage" -> Dropped
    [] env.payload = "callMessage" -> Dropped
    [] env.payload \in {"receiptMessage.DELIVERY", "receiptMessage.READ"} ->
         handleReceiptMessage(env)
    [] OTHER -> RemovedAndThrew

innerHandleLegacyMessage(env) ==
  IF env.payload = "undecodable" THEN Threw ELSE handleDataMessage(env)

\* decrypt rejects: the envelope type has no cipher, or the ratchet (or
\* unpad) fails.
decryptFails(env) ==
  env.type \notin {"CIPHERTEXT", "PREKEY_BUNDLE"} \/ env.ratchet = "fail"

\* The catch of decrypt dispatches nothing.
decryptSilent == <<>>

\* The catch of decrypt: one error event with a confirm closure.
decryptErrorEvents == <<[type |-> "error", confirm |-> TRUE]>>

\* decrypt(envelope, ciphertext).then(inner)
decryptThen(env, inner) ==
  IF decryptFails(env) THEN Outcome(decryptErrorEvents, FALSE, "rejected")
  ELSE inner

handleEnvelope(env) ==
  IF env.type = "RECEIPT"
    THEN Dispatched(<<[type |-> "delivery", confirm |-> TRUE]>>)
  ELSE IF env.body = "content"
    THEN decryptThen(env, innerHandleContentMessage(env))
  ELSE IF env.body = "legacyMessage"
    THEN decryptThen(env, innerHandleLegacyMessage(env))
  ELSE RemovedAndThrew

\* ------------------------------------------------------------------------
\* MessageReceiver: the receive pipeline
\* ------------------------------------------------------------------------

\* A promise reaction that is due: the continuation of handler i after
\* "await lastPromise", or the queueDispatch of the onEmpty of request i.
Job(k, i, outcome) == [k |-> k, i |-> i, outcome |-> outcome]

\* Promise p settles with the given outcome: the handlers awaiting p are
\* resumed in the order they suspended, then every Promise.all that p
\* completes, or that p rejects, calls its queueDispatch.
Notify(p, outcome, rq, aw, ws, js) ==
  LET Woken(i) == rq[i].last = p
      Asleep(i) == rq[i].last # p
      woken == SelectSeq(aw, Woken)
      conts == [j \in 1..Len(woken) |->
                  Job("await lastPromise", woken[j], outcome)]
      hit == {w \in ws : p \in w.waiting}
      fired == {w \in hit : outcome = "rejected" \/ w.waiting = {p}}
      left == (ws \ hit) \cup
              {[w EXCEPT !.waiting = @ \ {p}] : w \in hit \ fired}
      firedSeq == SetToSeq({w.req : w \in fired})
      alls == [j \in 1..Len(firedSeq) |->
                 Job("queueDispatch", firedSeq[j], outcome)]
  IN [awaiting |-> SelectSeq(aw, Asleep), waiters |-> left,
      jobs |-> js \o conts \o alls]

\* Every envelope is taken for one of a blocked sender.
isBlockedAlways(number) == TRUE

\* isBlocked(number)
isBlocked(number) == number \in blockedNumbers

\* A task of the chain before it has run.
NoShape ==
  [type |-> "none", source |-> "none", sourceDevice |-> 0, body |-> "none",
   ratchet |-> "none", payload |-> "none", n |-> 0, flags |-> {},
   group |-> "none", blob |-> "none", numbers |-> {}, text |-> "none",
   attachments |-> 0]

Task(kind, req) ==
  [kind |-> kind, req |-> req, result |-> "pending", env |-> NoShape,
   count |-> 0]

\* The Store before the receiver has run a task: it has written no group,
\* and it holds session records for two devices of the peer and for the
\* other device of the receiver's own account.
FreshStore ==
  /\ groupWrites = {}
  /\ storeSessions = (PeerNumber :> [d \in {1, 2} |-> "open"])
                     @@ (OurNumber :> [d \in {2} |-> "open"])

\* The receiver has been constructed (without retryCached) over a Store
\* that blocks one number; the server will deliver maxr requests whose
\* envelopes are among shp.
InitReceiver(maxr, shp) ==
  /\ hasConnected = FALSE
  /\ connects = 0
  /\ incoming = <<>>
  /\ pending = 0
  /\ queue = <<>>
  /\ requests = <<>>
  /\ awaiting = <<>>
  /\ waiters = {}
  /\ jobs = <<>>
  /\ events = <<>>
  /\ cache = {}
  /\ blockedNumbers = {BlockedNumber}
  /\ shapes = shp
  /\ maxReq = maxr
  /\ NoScan
  /\ NoSocket
  /\ FreshStore
  /\ retry = NoRetry
  /\ count = 0
  /\ progress = <<>>
  /\ NoWorker
  /\ NoSend
  /\ messageBuffer = <<>>
  /\ plaintext = NoPlaintext
  /\ unpadded = NotUnpadded

\* The close codes a socket or its WebSocketResource may report: the two
\* the receiver tells apart, and one of the others.
CloseCodes == {3000, 3001, 1006}

\* A socket as getMessageSocket() returns it, with the WebSocketResource
\* connect() wraps it in: the socket's readyState, whether its onclose is
\* still this.onclose, whether the resource's "close" listener is still
\* attached, the codes the resource's "close" event may carry (none
\* before the resource is closed) and whether it has emitted that event.
NewSocket ==
  [readyState |-> "OPEN", onclose |-> TRUE, listener |-> TRUE,
   wsrCodes |-> {}, wsrEmitted |-> FALSE]

\* socket.close() and wsr.close(code): given is the code given, or the
\* codes of the run when none is given and the resource uses its own.
closeSocket(ss, s, given) ==
  [ss EXCEPT ![s].readyState = IF @ = "CLOSED" THEN @ ELSE "CLOSING",
             ![s].wsrCodes = IF @ = {} THEN given ELSE @]

\* connect() returns at once.
connectReturnsNever == FALSE

\* if (this.calledClose) return;
connectReturns == calledClose

\* connect(): nothing after close(); otherwise a previous socket that is
\* not CLOSED is closed, a new socket with a new WebSocketResource takes
\* its place and this.incoming restarts from this.pending. ss is the
\* sockets as the caller leaves them.
connect(ss) ==
  IF connectReturns
    THEN /\ sockets' = ss
         /\ UNCHANGED <<hasConnected, connects, incoming, events, socket,
                        wsr, count>>
    ELSE /\ connects' = connects + 1
         /\ count' = 0
         /\ events' = IF hasConnected
                        THEN Append(events, Ev("reconnect", 0, FALSE))
                        ELSE events
         /\ hasConnected' = TRUE
         /\ LET closed == IF socket # 0 /\ ss[socket].readyState # "CLOSED"
                             THEN closeSocket(ss, socket, codes)
                             ELSE ss
            IN sockets' = Append(closed, NewSocket)
         /\ socket' = Len(ss) + 1
         /\ wsr' = Len(ss) + 1
         /\ incoming' = <<PendingPromise(pending)>>

\* The application calls connect().
Connect ==
  /\ jobs = <<>>
  /\ connects < MaxConnect
  /\ connect(sockets)
  /\ UNCHANGED <<pending, queue, requests, awaiting, waiters, jobs, cache,
                 blockedNumbers, shapes, maxReq>>
  /\ UNCHANGED <<calledClose, probes, closes, codes, inFlight>>
  /\ UNCHANGED <<storeVars, retry, workerVars, progress, sendVars, padVars, scanVars>>

\* handleRequest for PUT /api/v1/message, up to the call of
\* decryptWebsocketMessage.
HandleMessageRequest ==
  /\ jobs = <<>>
  /\ hasConnected
  /\ Len(requests) < maxReq
  /\ LET lastPromise == IF incoming = <<>> THEN Undefined
                        ELSE incoming[Len(incoming)]
     IN requests' = Append(requests,
                      [path |-> "/api/v1/message",
                       stage |-> "decryptWebsocketMessage",
                       last |-> lastPromise, responses |-> <<>>,
                       envelope |-> NoEnvelope, blockedSource |-> FALSE,
                       cached |-> FALSE])
  /\ incoming' = Append(incoming, HandlerPromise(Len(requests) + 1))
  /\ UNCHANGED <<hasConnected, connects, pending, queue, awaiting, waiters,
                 jobs, events, cache, blockedNumbers, shapes, maxReq>>
  /\ UNCHANGED <<storeVars, retry, workerVars, count, progress, sendVars, padVars, scanVars, sockVars>>

\* onEmpty(), and drain(): this.incoming is emptied and queueDispatch is
\* called when Promise.all of what it held settles. i names the caller:
\* the request, 0 for drain(), a negative number for a close event.
onEmpty(i) ==
  LET states == {Settlement(p, requests, queue) : p \in Range(incoming)}
      outcome == IF "rejected" \in states THEN "rejected" ELSE "resolved"
  IN /\ IF "rejected" \in states \/ "pending" \notin states
          THEN /\ jobs' = Append(jobs, Job("queueDispatch", i, outcome))
               /\ UNCHANGED waiters
          ELSE /\ waiters' = waiters \cup
                    {[req |-> i,
                      waiting |-> {p \in Range(incoming) :
                         Settlement(p, requests, queue) = "pending"}]}
               /\ UNCHANGED jobs
     /\ incoming' = <<>>

\* handleRequest for PUT /api/v1/queue/empty: respond 200, then onEmpty.
HandleQueueEmptyRequest ==
  /\ jobs = <<>>
  /\ hasConnected
  /\ Len(requests) < maxReq
  /\ LET i == Len(requests) + 1
         lastPromise == IF incoming = <<>> THEN Undefined
                        ELSE incoming[Len(incoming)]
     IN /\ requests' = Append(requests,
                         [path |-> "/api/v1/queue/empty", stage |-> "done",
                          last |-> lastPromise, responses |-> <<200>>,
                          envelope |-> NoEnvelope, blockedSource |-> FALSE,
                          cached |-> FALSE])
        /\ onEmpty(i)
  /\ UNCHANGED <<hasConnected, connects, pending, queue, awaiting, events,
                 cache, blockedNumbers, shapes, maxReq>>
  /\ UNCHANGED <<storeVars, retry, workerVars, count, progress, sendVars, padVars, scanVars, sockVars>>

\* Handler i ends: the promise handleRequest pushed for it resolves.
Finish(i, rq, js) ==
  LET nt == Notify(HandlerPromise(i), "resolved", rq, awaiting, waiters, js)
  IN /\ requests' = rq
     /\ awaiting' = nt.awaiting
     /\ waiters' = nt.waiters
     /\ jobs' = nt.jobs

\* decryptWebsocketMessage rejects, or Envelope.decode throws: the .catch
\* of handleRequest answers 500 and dispatches an error event.
WebsocketDecryptFailed(i) ==
  /\ jobs = <<>>
  /\ requests[i].stage = "decryptWebsocketMessage"
  /\ Finish(i, [requests EXCEPT ![i].stage = "done",
                                ![i].responses = Append(@, 500)], jobs)
  /\ events' = Append(events, Ev("error", i, FALSE))
  /\ UNCHANGED <<hasConnected, connects, incoming, pending, queue, cache,
                 blockedNumbers, shapes, maxReq>>
  /\ UNCHANGED <<storeVars, retry, workerVars, count, progress, sendVars, padVars, scanVars, sockVars>>

\* decryptWebsocketMessage resolves and the envelope is decoded: an
\* envelope of a blocked source is answered 200 and dropped, any other
\* goes to addToCache.
EnvelopeDecoded(i, outer) ==
  /\ jobs = <<>>
  /\ requests[i].stage = "decryptWebsocketMessage"
  /\ IF isBlocked(outer.source)
       THEN Finish(i, [requests EXCEPT ![i].stage = "done",
                                       ![i].envelope = outer,
                                       ![i].blockedSource =
                                          outer.source \in blockedNumbers,
                                       ![i].responses = Append(@, 200)],
                   jobs)
       ELSE /\ requests' = [requests EXCEPT ![i].stage = "addToCache",
                                            ![i].envelope = outer,
                                            ![i].blockedSource =
                                               outer.source \in blockedNumbers]
            /\ UNCHANGED <<awaiting, waiters, jobs>>
  /\ UNCHANGED <<hasConnected, connects, incoming, pending, queue, events,
                 cache, blockedNumbers, shapes, maxReq>>
  /\ UNCHANGED <<storeVars, retry, workerVars, count, progress, sendVars, padVars, scanVars, sockVars>>

\* addToCache resolves: the item is in the cache, the request is answered
\* 200 and the handler awaits lastPromise.
AddedToCache(i) ==
  /\ jobs = <<>>
  /\ requests[i].stage = "addToCache"
  /\ cache' = cache \cup {i}
  /\ requests' = [requests EXCEPT ![i].stage = "await lastPromise",
                                  ![i].cached = TRUE,
                                  ![i].responses = Append(@, 200)]
  /\ LET st == Settlement(requests[i].last, requests, queue)
     IN IF st = "pending"
          THEN /\ awaiting' = Append(awaiting, i)
               /\ UNCHANGED jobs
          ELSE /\ jobs' = Append(jobs, Job("await lastPromise", i, st))
               /\ UNCHANGED awaiting
  /\ UNCHANGED <<hasConnected, connects, incoming, pending, queue, waiters,
                 events, blockedNumbers, shapes, maxReq>>
  /\ UNCHANGED <<storeVars, retry, workerVars, count, progress, sendVars, padVars, scanVars, sockVars>>

\* A failure of addToCache is taken for a success: the request is
\* answered 200 and the handler awaits lastPromise.
AddToCacheFailureIgnored(i) ==
  /\ jobs = <<>>
  /\ requests[i].stage = "addToCache"
  /\ requests' = [requests EXCEPT ![i].stage = "await lastPromise",
                                  ![i].responses = Append(@, 200)]
  /\ LET st == Settlement(requests[i].last, requests, queue)
     IN IF st = "pending"
          THEN /\ awaiting' = Append(awaiting, i)
               /\ UNCHANGED jobs
          ELSE /\ jobs' = Append(jobs, Job("await lastPromise", i, st))
               /\ UNCHANGED awaiting
  /\ UNCHANGED <<hasConnected, connects, incoming, pending, queue, waiters,
                 events, cache, blockedNumbers, shapes, maxReq>>
  /\ UNCHANGED <<storeVars, retry, workerVars, count, progress, sendVars, padVars, scanVars, sockVars>>

\* addToCache rejects: the request is answered 500.
AddToCacheFailed(i) ==
  /\ jobs = <<>>
  /\ requests[i].stage = "addToCache"
  /\ Finish(i, [requests EXCEPT ![i].stage = "done",
                                ![i].responses = Append(@, 500)], jobs)
  /\ UNCHANGED <<hasConnected, connects, incoming, pending, queue, events,
                 cache, blockedNumbers, shapes, maxReq>>
  /\ UNCHANGED <<storeVars, retry, workerVars, count, progress, sendVars, padVars, scanVars, sockVars>>

\* addToQueue(task): the task joins the chain and its promise becomes
\* this.pending.
addToQueue(c, task) ==
  /\ count' = c + 1
  /\ queue' = Append(queue, [task EXCEPT !.count = c + 1])
  /\ pending' = Len(queue) + 1

\* lastPromise has resolved: queueEnvelope(envelope), and the handler ends.
QueueEnvelope ==
  /\ jobs # <<>>
  /\ Head(jobs).k = "await lastPromise"
  /\ Head(jobs).outcome = "resolved"
  /\ LET i == Head(jobs).i
     IN /\ addToQueue(count, Task("envelope", i))
        /\ Finish(i, [requests EXCEPT ![i].stage = "done"], Tail(jobs))
  /\ UNCHANGED <<hasConnected, connects, incoming, events, cache,
                 blockedNumbers, shapes, maxReq>>
  /\ UNCHANGED <<storeVars, retry, workerVars, progress, sendVars, padVars, scanVars, sockVars>>

\* lastPromise has rejected: the await throws, the .catch of handleRequest
\* answers 500 and dispatches an error event; the envelope is not queued.
AwaitThrows ==
  /\ jobs # <<>>
  /\ Head(jobs).k = "await lastPromise"
  /\ Head(jobs).outcome = "rejected"
  /\ LET i == Head(jobs).i
     IN /\ Finish(i, [requests EXCEPT ![i].stage = "done",
                                      ![i].responses = Append(@, 500)],
                  Tail(jobs))
        /\ events' = Append(events, Ev("error", i, FALSE))
  /\ UNCHANGED <<hasConnected, connects, incoming, pending, queue, cache,
                 blockedNumbers, shapes, maxReq>>
  /\ UNCHANGED <<storeVars, retry, workerVars, count, progress, sendVars, padVars, scanVars, sockVars>>

\* queueDispatch of onEmpty: the task that emits 'empty' joins the chain;
\* queueDispatch of drain(): the task that logs "drained" does.
QueueDispatch ==
  /\ jobs # <<>>
  /\ Head(jobs).k = "queueDispatch"
  /\ addToQueue(IF Head(jobs).i = 0 THEN count ELSE 0,
                Task(IF Head(jobs).i = 0 THEN "drained" ELSE "empty",
                     Head(jobs).i))
  /\ jobs' = Tail(jobs)
  /\ UNCHANGED <<hasConnected, connects, incoming, requests, awaiting,
                 waiters, events, cache, blockedNumbers, shapes, maxReq>>
  /\ UNCHANGED <<storeVars, retry, workerVars, progress, sendVars, padVars, scanVars, sockVars>>

\* The chain hangs off the promise of queueAllCached() when the receiver
\* was constructed with retryCached: no task runs before it has settled.
ChainRuns == scan.pc \in {"off", "done"}

\* The task the chain runs next: the first that has not settled.
NextTask == Min({k \in DOMAIN queue : queue[k].result = "pending"})

\* this.pending.then(task, task): the task is the callback for both ways
\* in which the promise before it can settle.
ThenCalls(result) == result \in {"resolved", "rejected"}

\* The promises before task k have settled so that the chain calls it.
ChainCalls(k) == \A j \in 1..(k - 1) : ThenCalls(queue[j].result)

\* The step of the 'progress' events.
ProgressStep == 10

\* updateProgress dispatching an event for every count.
updateProgressAlways(evs, c) == Append(evs, c)

\* message_receiver.js updateProgress, called by cleanup with the count
\* that addToQueue gave the task: a 'progress' event that carries the
\* count is dispatched when it is a multiple of 10.
updateProgress(evs, c) ==
  IF c % ProgressStep # 0 THEN evs ELSE Append(evs, c)

\* cleanup resetting this.pending whatever it is.
cleanupAlways(p, k) == 0

\* The cleanup of addToQueue for task k: this.pending, which is p, becomes
\* a resolved promise when it is still the promise of k.
cleanup(p, k) == IF p = k THEN 0 ELSE p

\* Task k settles: cleanup resets this.pending when it is still the
\* promise of k, and the promise of k notifies who waits for it.
Settle(k, result, env) ==
  LET q == [queue EXCEPT ![k].result = result, ![k].env = env]
      nt == Notify(ChainPromise(k), result, requests, awaiting, waiters, jobs)
  IN /\ queue' = q
     /\ pending' = cleanup(pending, k)
     /\ progress' = updateProgress(progress, queue[k].count)
     /\ awaiting' = nt.awaiting
     /\ waiters' = nt.waiters
     /\ jobs' = nt.jobs

\* The events of an outcome as the listeners get them for request req:
\* a 'message' or 'sent' event carries the processed message.
EventsOfOutcome(out, req) ==
  [j \in 1..Len(out.events) |->
     [Ev(out.events[j].type, req, out.events[j].confirm)
        EXCEPT !.message = IF out.events[j].type \in {"message", "sent"}
                             THEN out.message ELSE NoMessage]]

\* Task k has not called handleEndSession.
NotStarted(k) == queue[k].env = NoShape

\* The task of env does not wait for handleEndSession.
EndSessionSkipped(k, env) == NotStarted(k) \/ queue[k].env = env

\* p.then(...) of handleDataMessage and handleSentMessage: the task of
\* env goes on at once when it made no handleEndSession call, and else
\* when the Promise.all of handleEndSession has resolved, which is when
\* every deleteAllSessionsForDevice it called has completed.
EndSessionDone(k, env) ==
  LET ends == handleEnvelope(env).endSession
  IN IF ends = <<>> THEN NotStarted(k)
     ELSE /\ queue[k].env = env
          /\ \A d \in DOMAIN storeSessions[ends[1]] :
               storeSessions[ends[1]][d] = "deleted"

\* handleEndSession(number), called by the task of an envelope whose
\* message has the END_SESSION bit: getDeviceIds(number), then
\* deleteAllSessionsForDevice is called for every device id.
HandleEndSession(env) ==
  /\ jobs = <<>>
  /\ ChainRuns
  /\ \E k \in DOMAIN queue : queue[k].result = "pending"
  /\ ChainCalls(NextTask)
  /\ queue[NextTask].kind = "envelope"
  /\ NotStarted(NextTask)
  /\ env \in shapes
  /\ Outer(env) = requests[queue[NextTask].req].envelope
  /\ handleEnvelope(env).endSession # <<>>
  /\ LET number == handleEnvelope(env).endSession[1]
     IN storeSessions' =
          [storeSessions EXCEPT ![number] =
             [d \in DOMAIN storeSessions[number] |-> "deleting"]]
  /\ queue' = [queue EXCEPT ![NextTask].env = env]
  /\ UNCHANGED <<hasConnected, connects, incoming, pending, requests,
                 awaiting, waiters, jobs, events, cache, blockedNumbers,
                 shapes, maxReq, groupWrites, retry, workerVars, count, progress>>
  /\ UNCHANGED <<sendVars, padVars, scanVars, sockVars>>

\* One deleteAllSessionsForDevice call completes.
SessionsDeleted(number, d) ==
  /\ jobs = <<>>
  /\ storeSessions[number][d] = "deleting"
  /\ storeSessions' = [storeSessions EXCEPT ![number][d] = "deleted"]
  /\ UNCHANGED <<hasConnected, connects, incoming, pending, queue, requests,
                 awaiting, waiters, jobs, events, cache, blockedNumbers,
                 shapes, maxReq, groupWrites, retry, workerVars, count, progress>>
  /\ UNCHANGED <<sendVars, padVars, scanVars, sockVars>>

\* The chain runs handleEnvelope for the envelope of a request; env is
\* the envelope with what decrypting and decoding its body show.
RunEnvelopeTask(env) ==
  /\ jobs = <<>>
  /\ ChainRuns
  /\ \E k \in DOMAIN queue : queue[k].result = "pending"
  /\ ChainCalls(NextTask)
  /\ queue[NextTask].kind = "envelope"
  /\ env \in shapes
  /\ Outer(env) = requests[queue[NextTask].req].envelope
  /\ EndSessionDone(NextTask, env)
  /\ LET k == NextTask
         req == queue[k].req
         out == handleEnvelope(env)
     IN /\ events' = events \o EventsOfOutcome(out, req)
        /\ cache' = IF out.removed THEN cache \ {req} ELSE cache
        /\ blockedNumbers' = IF out.blocked = <<>> THEN blockedNumbers
                             ELSE out.blocked[1]
        /\ groupWrites' = groupWrites \cup out.groups
        /\ Settle(k, out.result, env)
  /\ UNCHANGED <<hasConnected, connects, incoming, requests, shapes, maxReq,
                 storeSessions, retry, workerVars, count>>
  /\ UNCHANGED <<sendVars, padVars, scanVars, sockVars>>

\* The chain runs dispatchEmpty.
DispatchEmpty ==
  /\ jobs = <<>>
  /\ ChainRuns
  /\ \E k \in DOMAIN queue : queue[k].result = "pending"
  /\ ChainCalls(NextTask)
  /\ queue[NextTask].kind = "empty"
  /\ events' = Append(events, Ev("empty", queue[NextTask].req, FALSE))
  /\ Settle(NextTask, "resolved", NoShape)
  /\ UNCHANGED <<hasConnected, connects, incoming, requests, cache,
                 blockedNumbers, shapes, maxReq>>
  /\ UNCHANGED <<storeVars, retry, workerVars, count, sendVars, padVars, scanVars, sockVars>>

\* store.removeUnprocessed(id) on the items the Store held at
\* construction.
Without(items, id) ==
  LET Other(it) == it.id # id IN SelectSeq(items, Other)

\* A listener calls the confirm() of an event it was given:
\* removeFromCache(envelope).
Confirm(e) ==
  /\ jobs = <<>>
  /\ events[e].confirm
  /\ ~events[e].confirmed
  /\ events' = [events EXCEPT ![e].confirmed = TRUE]
  /\ cache' = cache \ {events[e].req}
  /\ unprocessed' = Without(unprocessed, events[e].req)
  /\ UNCHANGED <<hasConnected, connects, incoming, pending, queue, requests,
                 awaiting, waiters, jobs, blockedNumbers, shapes, maxReq>>
  /\ UNCHANGED <<storeVars, retry, workerVars, count, progress, sendVars, padVars, untracked, scan, cachedHistory,
                 sockVars>>

NextRecv ==
  \/ Connect
  \/ HandleMessageRequest
  \/ HandleQueueEmptyRequest
  \/ \E i \in DOMAIN requests : WebsocketDecryptFailed(i)
  \/ \E i \in DOMAIN requests :
       \E outer \in {Outer(env) : env \in shapes} : EnvelopeDecoded(i, outer)
  \/ \E i \in DOMAIN requests : AddedToCache(i)
  \/ \E i \in DOMAIN requests : AddToCacheFailed(i)
  \/ QueueEnvelope
  \/ AwaitThrows
  \/ QueueDispatch
  \/ \E env \in shapes : RunEnvelopeTask(env)
  \/ DispatchEmpty
  \/ \E e \in DOMAIN events : Confirm(e)

\* The order of the pipeline: up to MaxReq requests, three envelopes.
InitOrder == InitReceiver(MaxReq, OrderShapes)

SpecOrder == InitOrder /\ [][NextRecv]_vars

\* The populations of envelopes of the dispatch checks: all envelopes of
\* one run have the same shape, or are a mix of the three of OrderShapes.
ShapeSets == {{s} : s \in AllShapes} \cup {OrderShapes}

\* Every shape of envelope, up to MaxEnv requests.
InitDispatch == \E shp \in ShapeSets : InitReceiver(MaxEnv, shp)

SpecDispatch == InitDispatch /\ [][NextRecv]_vars

\* The envelopes of the checks of handleSyncMessage, handleEndSession and
\* processDecrypted: a sync message of every kind from the receiver's
\* number and from another, from its own device and from another; a data
\* message and a sent transcript with every combination of flag bits,
\* with a body and an attachment, with and without a group; a data
\* message in a legacy body with and without END_SESSION and another bit.
HandleShapes ==
  { [SyncEnvelope EXCEPT !.payload = p, !.source = src, !.sourceDevice = dev,
                         !.n = 1, !.group = "blockedQuit"] :
      p \in SyncPayloads, src \in {OurNumber, PeerNumber},
      dev \in {OurDeviceId, 2} }
  \cup
  { [DataEnvelope EXCEPT !.flags = f, !.group = g, !.attachments = 1] :
      f \in SUBSET FlagBits, g \in {"none", "blocked"} }
  \cup
  { [SyncEnvelope EXCEPT !.flags = f, !.attachments = 1] :
      f \in SUBSET FlagBits }
  \cup
  { [DataEnvelope EXCEPT !.body = "legacyMessage", !.flags = f,
                         !.attachments = 1] :
      f \in SUBSET {"END_SESSION", "other"} }

\* Receiving: the pipeline without queue/empty requests and without
\* failures of the websocket decryption and of the cache, and the
\* sessions that handleEndSession deletes.
NextHandle ==
  \/ Connect
  \/ HandleMessageRequest
  \/ \E i \in DOMAIN requests :
       \E outer \in {Outer(env) : env \in shapes} : EnvelopeDecoded(i, outer)
  \/ \E i \in DOMAIN requests : AddedToCache(i)
  \/ QueueEnvelope
  \/ AwaitThrows
  \/ \E env \in shapes : HandleEndSession(env)
  \/ \E number \in DOMAIN storeSessions :
       \E d \in DOMAIN storeSessions[number] : SessionsDeleted(number, d)
  \/ \E env \in shapes : RunEnvelopeTask(env)

\* Up to MaxEnv requests, all with the same envelope.
InitHandle == \E s \in HandleShapes : InitReceiver(MaxEnv, {s})

SpecHandle == InitHandle /\ [][NextHandle]_vars

\* The timeout of createTaskWithTimeout, which wraps the task of every
\* envelope: a task that has started and is still waiting, here for the
\* deletions of handleEndSession, is rejected. The work it waits for is
\* not cancelled.
TaskTimedOut ==
  /\ jobs = <<>>
  /\ ChainRuns
  /\ \E k \in DOMAIN queue : queue[k].result = "pending"
  /\ ChainCalls(NextTask)
  /\ queue[NextTask].kind = "envelope"
  /\ ~NotStarted(NextTask)
  /\ Settle(NextTask, "rejected", queue[NextTask].env)
  /\ UNCHANGED <<hasConnected, connects, incoming, requests, events, cache,
                 blockedNumbers, shapes, maxReq>>
  /\ UNCHANGED <<storeVars, retry, workerVars, count, sendVars, padVars, scanVars, sockVars>>

\* The chain with tasks that resolve, reject and time out.
NextChain == NextHandle \/ TaskTimedOut

InitChain == \E s \in HandleShapes : InitReceiver(MaxEnv, {s})

SpecChain == InitChain /\ [][NextChain]_vars

\* The server delivers a request when the handlers of the earlier ones
\* have ended, and a message when at most MaxLag of the tasks queued so
\* far still wait on the chain.
HandlersEnded == \A i \in DOMAIN requests : requests[i].stage = "done"

Waiting == {k \in DOMAIN queue : queue[k].result = "pending"}

EmptyRequests ==
  {i \in DOMAIN requests : requests[i].path = "/api/v1/queue/empty"}

MessageInTurn ==
  /\ HandlersEnded
  /\ Cardinality(Waiting) <= MaxLag
  /\ HandleMessageRequest

Restarts ==
  Cardinality(EmptyRequests) + (IF connects > 1 THEN connects - 1 ELSE 0)

EmptyInTurn ==
  /\ HandlersEnded
  /\ Restarts < MaxRestarts
  /\ HandleQueueEmptyRequest

ConnectInTurn ==
  /\ HandlersEnded
  /\ hasConnected => Restarts < MaxRestarts
  /\ Connect

\* The running count: data messages and queue/empty requests that arrive
\* one after the other, reconnects between them, and the chain that
\* runs their tasks at its own pace.
NextProgress ==
  \/ ConnectInTurn
  \/ MessageInTurn
  \/ EmptyInTurn
  \/ \E i \in DOMAIN requests :
       \E outer \in {Outer(env) : env \in shapes} : EnvelopeDecoded(i, outer)
  \/ \E i \in DOMAIN requests : AddedToCache(i)
  \/ QueueEnvelope
  \/ QueueDispatch
  \/ \E env \in shapes : RunEnvelopeTask(env)
  \/ DispatchEmpty

\* Up to MaxCounted requests; every message is a data message.
InitProgress == InitReceiver(MaxCounted, {DataEnvelope})

SpecProgress == InitProgress /\ [][NextProgress]_vars

\* ------------------------------------------------------------------------
\* MessageReceiver: the startup scan of the unprocessed cache
\* ------------------------------------------------------------------------

\* getAllFromCache deletes the cache instead of reprocessing it when the
\* Store counts more items than this.
PurgeLimit == 250

\* count > 250, taken one item earlier.
TooManyFromLimit(counted) == counted >= PurgeLimit

\* count > 250
TooMany(counted) == counted > PurgeLimit

\* An item of the unprocessed cache: version is 2 for an item written by
\* addToCache and 1 for an item without a version; envelope and decrypted
\* are "bytes", "string" or (decrypted only) "none".
Item(id, version, attempts, envelope, decrypted) ==
  [id |-> id, version |-> version, attempts |-> attempts,
   envelope |-> envelope, decrypted |-> decrypted]

\* The contents an item may have, apart from its id and attempts: as
\* addToCache writes it, base64 strings under version 2, and the four
\* mixes of bytes and strings without a version.
ItemContents ==
  { [version |-> 2, envelope |-> "bytes", decrypted |-> "none"],
    [version |-> 2, envelope |-> "string", decrypted |-> "string"],
    [version |-> 1, envelope |-> "bytes", decrypted |-> "none"],
    [version |-> 1, envelope |-> "bytes", decrypted |-> "bytes"],
    [version |-> 1, envelope |-> "bytes", decrypted |-> "string"],
    [version |-> 1, envelope |-> "string", decrypted |-> "none"] }

\* The attempts an item of the Store may carry: none (read as 0) on an
\* item written before attempts were counted, 1 as addToCache writes it,
\* 2 as the scan persists it.
StoredAttempts == {0, 1, 2}

\* The j-th item of the Store has id -j: the ids of the requests of the
\* socket are positive.
StoredItems(n) ==
  { [j \in 1..n |-> Item(0 - j, c[j].version, a[j], c[j].envelope,
                         c[j].decrypted)] :
      c \in [1..n -> ItemContents], a \in [1..n -> StoredAttempts] }

\* The write of the scan for a loaded item persists the attempts as
\* loaded.
scanWriteSame(items, item) ==
  IF 1 + item.attempts >= 3 THEN Without(items, item.id) ELSE items

\* The write of the scan for a loaded item never removes the item.
scanWriteKeeps(items, item) ==
  LET Written(it) == IF it.id = item.id
                       THEN [item EXCEPT !.attempts = 1 + item.attempts]
                       ELSE it
  IN [j \in 1..Len(items) |-> Written(items[j])]

\* The write of the scan for a loaded item: removeUnprocessed when the
\* incremented attempts is 3 or more, else updateUnprocessed with the
\* loaded item and the incremented attempts.
scanWrite(items, item) ==
  LET attempts == 1 + item.attempts
      Written(it) == IF it.id = item.id
                       THEN [item EXCEPT !.attempts = attempts]
                       ELSE it
  IN IF attempts >= 3 THEN Without(items, item.id)
     ELSE [j \in 1..Len(items) |-> Written(items[j])]

\* What queueCached does with an item. The conversions it calls on the
\* class, MessageReceiver.stringToArrayBufferBase64 and
\* MessageReceiver.stringToArrayBuffer, are methods of the instances only:
\* calling them on the class throws a TypeError, which the catch of
\* queueCached answers by removing the item.
queueCached(item) ==
  IF item.version = 2 THEN "catch"
  ELSE IF item.envelope = "string" THEN "catch"
  ELSE IF item.decrypted = "none" THEN "queueEnvelope"
  ELSE IF item.decrypted = "string" THEN "catch"
  ELSE "queueDecryptedEnvelope"

\* handleDecryptedEnvelope(envelope, plaintext)
handleDecryptedEnvelope(env) ==
  IF env.body = "content" THEN innerHandleContentMessage(env)
  ELSE IF env.body = "legacyMessage" THEN innerHandleLegacyMessage(env)
  ELSE RemovedAndThrew

\* The loop of queueAllCached goes on to the next item, or ends: then the
\* promise of queueAllCached resolves.
ScanNext(sc) ==
  LET done == sc.i >= Len(sc.items)
      nt == Notify(ScanPromise, "resolved", requests, awaiting, waiters, jobs)
  IN /\ scan' = IF done THEN [sc EXCEPT !.pc = "done"]
                ELSE [sc EXCEPT !.pc = "queueCached", !.i = @ + 1]
     /\ awaiting' = IF done THEN nt.awaiting ELSE awaiting
     /\ waiters' = IF done THEN nt.waiters ELSE waiters
     /\ jobs' = IF done THEN nt.jobs ELSE jobs

\* store.countUnprocessed() resolves.
ScanCounted ==
  /\ jobs = <<>>
  /\ scan.pc = "countUnprocessed"
  /\ LET counted == Len(unprocessed) + Cardinality(cache) + untracked
     IN scan' = [scan EXCEPT !.count = counted,
                             !.pc = IF TooMany(counted)
                                      THEN "removeAllUnprocessed"
                                      ELSE "getAllUnprocessed"]
  /\ UNCHANGED <<hasConnected, connects, incoming, pending, queue, requests,
                 awaiting, waiters, jobs, events, cache, blockedNumbers,
                 shapes, maxReq, unprocessed, untracked>>
  /\ UNCHANGED <<storeVars, retry, workerVars, count, progress, sendVars, padVars, sockVars, cachedHistory>>

\* store.removeAllUnprocessed() resolves: getAllFromCache returns no item
\* and queueAllCached ends.
ScanPurged ==
  /\ jobs = <<>>
  /\ scan.pc = "removeAllUnprocessed"
  /\ unprocessed' = <<>>
  /\ untracked' = 0
  /\ cache' = {}
  /\ ScanNext([scan EXCEPT !.items = <<>>])
  /\ UNCHANGED <<hasConnected, connects, incoming, pending, queue, requests,
                 events, blockedNumbers, shapes, maxReq>>
  /\ UNCHANGED <<storeVars, retry, workerVars, count, progress, sendVars, padVars, sockVars, cachedHistory>>

\* store.getAllUnprocessed() resolves: every item's write is issued. A
\* scan is followed further when the Store holds the followed items only.
ScanLoaded ==
  /\ jobs = <<>>
  /\ scan.pc = "getAllUnprocessed"
  /\ untracked = 0
  /\ IF unprocessed = <<>>
       THEN ScanNext([scan EXCEPT !.items = <<>>])
       ELSE /\ scan' = [scan EXCEPT !.items = unprocessed, !.pc = "writes"]
            /\ UNCHANGED <<awaiting, waiters, jobs>>
  /\ UNCHANGED <<hasConnected, connects, incoming, pending, queue, requests,
                 events, cache, blockedNumbers, shapes, maxReq, unprocessed,
                 untracked>>
  /\ UNCHANGED <<storeVars, retry, workerVars, count, progress, sendVars, padVars, sockVars, cachedHistory>>

\* The write of the j-th loaded item resolves; with the last of them
\* Promise.all resolves and the loop of queueAllCached starts.
ScanWritten(j) ==
  /\ jobs = <<>>
  /\ scan.pc = "writes"
  /\ j \in DOMAIN scan.items
  /\ j \notin scan.written
  /\ unprocessed' = scanWrite(unprocessed, scan.items[j])
  /\ scan' = [scan EXCEPT !.written = @ \cup {j},
                          !.pc = IF scan.written \cup {j} = DOMAIN scan.items
                                   THEN "queueCached" ELSE "writes",
                          !.i = IF scan.written \cup {j} = DOMAIN scan.items
                                  THEN 1 ELSE 0]
  /\ UNCHANGED <<hasConnected, connects, incoming, pending, queue, requests,
                 awaiting, waiters, jobs, events, cache, blockedNumbers,
                 shapes, maxReq, untracked>>
  /\ UNCHANGED <<storeVars, retry, workerVars, count, progress, sendVars, padVars, sockVars, cachedHistory>>

\* queueCached(items[i]) up to its first suspension: the item joins the
\* chain, or the catch calls store.removeUnprocessed.
QueueCached ==
  /\ jobs = <<>>
  /\ scan.pc = "queueCached"
  /\ LET item == scan.items[scan.i]
         route == queueCached(item)
     IN IF route = "catch"
          THEN /\ scan' = [scan EXCEPT !.pc = "removeUnprocessed"]
               /\ UNCHANGED <<queue, pending, awaiting, waiters, jobs,
                              count>>
          ELSE /\ addToQueue(count, Task(route, item.id))
               /\ ScanNext(scan)
  /\ UNCHANGED <<hasConnected, connects, incoming, requests, events, cache,
                 blockedNumbers, shapes, maxReq, unprocessed, untracked>>
  /\ UNCHANGED <<storeVars, retry, workerVars, progress, sendVars, padVars, sockVars, cachedHistory>>

\* The removeUnprocessed of the catch of queueCached resolves.
QueueCachedRemoved ==
  /\ jobs = <<>>
  /\ scan.pc = "removeUnprocessed"
  /\ unprocessed' = Without(unprocessed, scan.items[scan.i].id)
  /\ ScanNext(scan)
  /\ UNCHANGED <<hasConnected, connects, incoming, pending, queue, requests,
                 events, cache, blockedNumbers, shapes, maxReq, untracked>>
  /\ UNCHANGED <<storeVars, retry, workerVars, count, progress, sendVars, padVars, sockVars, cachedHistory>>

\* The chain runs the task of a cached item: handleEnvelope, or
\* handleDecryptedEnvelope for an item with a decrypted payload; env is the
\* envelope the item decodes to.
RunCachedTask(env) ==
  /\ jobs = <<>>
  /\ ChainRuns
  /\ \E k \in DOMAIN queue : queue[k].result = "pending"
  /\ ChainCalls(NextTask)
  /\ queue[NextTask].kind \in {"queueEnvelope", "queueDecryptedEnvelope"}
  /\ env \in shapes
  /\ LET k == NextTask
         id == queue[k].req
         out == IF queue[k].kind = "queueEnvelope" THEN handleEnvelope(env)
                ELSE handleDecryptedEnvelope(env)
     IN /\ events' = events \o EventsOfOutcome(out, id)
        /\ unprocessed' = IF out.removed THEN Without(unprocessed, id)
                          ELSE unprocessed
        /\ blockedNumbers' = IF out.blocked = <<>> THEN blockedNumbers
                             ELSE out.blocked[1]
        /\ cachedHistory' = [cachedHistory EXCEPT ![0 - id].tasks = @ + 1]
        /\ groupWrites' = groupWrites \cup out.groups
        /\ Settle(k, out.result, env)
  /\ UNCHANGED <<hasConnected, connects, incoming, requests, cache, shapes,
                 maxReq, untracked, scan, storeSessions, retry, workerVars, count>>
  /\ UNCHANGED <<sendVars, padVars, sockVars>>

\* The process ends and a new receiver is constructed with retryCached
\* over the same Store: the chain, the events and their confirm closures
\* are gone, the Store is as it was left.
Restart ==
  /\ jobs = <<>>
  /\ scan.pc # "off"
  /\ scan' = [pc |-> "countUnprocessed", count |-> 0, items |-> <<>>,
              written |-> {}, i |-> 0]
  /\ pending' = 0 - 1
  /\ queue' = <<>>
  /\ events' = <<>>
  /\ count' = 0
  /\ progress' = <<>>
  /\ awaiting' = <<>>
  /\ waiters' = {}
  /\ UNCHANGED <<hasConnected, connects, incoming, requests, jobs, cache,
                 blockedNumbers, shapes, maxReq, unprocessed, untracked,
                 cachedHistory>>
  /\ UNCHANGED <<storeVars, retry, workerVars, sendVars, padVars, sockVars>>

NextScan ==
  \/ ScanCounted
  \/ ScanPurged
  \/ ScanLoaded
  \/ \E j \in 1..(MaxCached + 1) : ScanWritten(j)
  \/ QueueCached
  \/ QueueCachedRemoved
  \/ \E env \in shapes : RunCachedTask(env)
  \/ \E e \in DOMAIN events : Confirm(e)
  \/ Restart

\* The envelopes the cached items decode to: one that is dispatched and
\* one that the ratchet cannot decrypt.
ScanShapes ==
  { DataEnvelope,
    [DataEnvelope EXCEPT !.ratchet = "fail"] }

\* A receiver has been constructed with retryCached over a Store that
\* holds up to MaxCached followed items and, in some runs, as many more
\* as bring the count to PurgeLimit or one above it.
InitScan ==
  /\ hasConnected = FALSE
  /\ connects = 0
  /\ incoming = <<>>
  /\ pending = 0 - 1
  /\ queue = <<>>
  /\ requests = <<>>
  /\ awaiting = <<>>
  /\ waiters = {}
  /\ jobs = <<>>
  /\ events = <<>>
  /\ cache = {}
  /\ blockedNumbers = {BlockedNumber}
  /\ shapes = ScanShapes
  /\ maxReq = 0
  /\ \E n \in 0..MaxCached :
       /\ unprocessed \in StoredItems(n)
       /\ untracked \in {0, PurgeLimit - n, PurgeLimit + 1 - n}
  /\ scan = [pc |-> "countUnprocessed", count |-> 0, items |-> <<>>,
             written |-> {}, i |-> 0]
  /\ cachedHistory = [j \in DOMAIN unprocessed |->
                        [first |-> unprocessed[j].attempts, tasks |-> 0]]
  /\ NoSocket
  /\ FreshStore
  /\ retry = NoRetry
  /\ count = 0
  /\ progress = <<>>
  /\ NoWorker
  /\ NoSend
  /\ messageBuffer = <<>>
  /\ plaintext = NoPlaintext
  /\ unpadded = NotUnpadded

SpecScan == InitScan /\ [][NextScan]_vars

\* The items of a Store whose scan queues every item: written without a
\* version, the envelope as bytes, loaded for the second time.
QueuedItems(n) ==
  {its \in StoredItems(n) :
     \A j \in 1..n : /\ its[j].attempts = 1
                      /\ its[j].version = 1
                      /\ its[j].envelope = "bytes"
                      /\ its[j].decrypted \in {"none", "bytes"}}

\* The envelopes of the socket and of the cached items when the scan and
\* the socket run together: one that is dispatched, one from a blocked
\* number.
CachedFirstShapes ==
  { DataEnvelope,
    [DataEnvelope EXCEPT !.source = BlockedNumber] }

\* A receiver has been constructed with retryCached over a Store that
\* holds up to MaxCached items; connect() is yet to be called and the
\* server will deliver up to MaxEnv requests.
InitCachedFirst ==
  /\ hasConnected = FALSE
  /\ connects = 0
  /\ incoming = <<>>
  /\ pending = 0 - 1
  /\ queue = <<>>
  /\ requests = <<>>
  /\ awaiting = <<>>
  /\ waiters = {}
  /\ jobs = <<>>
  /\ events = <<>>
  /\ cache = {}
  /\ blockedNumbers = {BlockedNumber}
  /\ shapes = CachedFirstShapes
  /\ maxReq = MaxEnv
  /\ \E n \in 1..MaxCached : unprocessed \in QueuedItems(n)
  /\ untracked = 0
  /\ scan = [pc |-> "countUnprocessed", count |-> 0, items |-> <<>>,
             written |-> {}, i |-> 0]
  /\ cachedHistory = [j \in DOMAIN unprocessed |->
                        [first |-> unprocessed[j].attempts, tasks |-> 0]]
  /\ NoSocket
  /\ FreshStore
  /\ retry = NoRetry
  /\ count = 0
  /\ progress = <<>>
  /\ NoWorker
  /\ NoSend
  /\ messageBuffer = <<>>
  /\ plaintext = NoPlaintext
  /\ unpadded = NotUnpadded

\* The server delivers a message when getAllUnprocessed has resolved: the
\* items the scan loads are those the Store held at construction.
MessageAfterLoad ==
  /\ scan.pc \notin {"countUnprocessed", "getAllUnprocessed"}
  /\ HandleMessageRequest

\* The scan of the cache and the socket together.
NextCachedFirst ==
  \/ ScanCounted
  \/ ScanLoaded
  \/ \E j \in 1..(MaxCached + 1) : ScanWritten(j)
  \/ QueueCached
  \/ \E env \in shapes : RunCachedTask(env)
  \/ Connect
  \/ MessageAfterLoad
  \/ HandleQueueEmptyRequest
  \/ \E i \in DOMAIN requests :
       \E outer \in {Outer(env) : env \in shapes} : EnvelopeDecoded(i, outer)
  \/ \E i \in DOMAIN requests : AddedToCache(i)
  \/ QueueEnvelope
  \/ QueueDispatch
  \/ \E env \in shapes : RunEnvelopeTask(env)
  \/ DispatchEmpty

SpecCachedFirst == InitCachedFirst /\ [][NextCachedFirst]_vars

\* ------------------------------------------------------------------------
\* MessageReceiver: the socket supervisor
\* ------------------------------------------------------------------------

\* shutdown(): the handlers of this.socket and the listener of this.wsr
\* are taken off, whichever socket and resource these are now.
shutdown(ss) ==
  LET off == IF socket = 0 THEN ss ELSE [ss EXCEPT ![socket].onclose = FALSE]
  IN IF wsr = 0 THEN off ELSE [off EXCEPT ![wsr].listener = FALSE]

\* onclose does nothing after shutdown() when every close is taken for
\* one with code 3000.
TerminalAlways(code) == TRUE

\* onclose returns after shutdown(): close() has been called, or the
\* code is 3000.
Terminal(code) == calledClose \/ code = 3000

\* No close code makes onclose call onEmpty().
DrainedNever(code) == FALSE

\* ev.code === 3001
Drained(code) == code = 3001

\* onclose(ev) for a close event of socket s or of its resource; ss is
\* the sockets with that event recorded. After shutdown(), unless the
\* close is terminal, onEmpty() is called when the code is 3001 and
\* getDevices is called in every case.
onclose(s, code, ss) ==
  LET c == Len(closes) + 1
  IN /\ closes' = Append(closes, [socket |-> s, code |-> code,
                                  calledClose |-> calledClose])
     /\ sockets' = shutdown(ss)
     /\ socket' = 0
     /\ wsr' = 0
     /\ IF Terminal(code)
          THEN UNCHANGED <<incoming, waiters, jobs, probes>>
          ELSE /\ IF Drained(code) THEN onEmpty(0 - c)
                  ELSE UNCHANGED <<incoming, waiters, jobs>>
               /\ probes' = Append(probes,
                              [cause |-> c, state |-> "pending",
                               late |-> FALSE, opened |-> 0])

\* The close event of socket s: the socket is CLOSED, and its onclose
\* handler is called when it is still set.
SocketClosed(s, code) ==
  /\ jobs = <<>>
  /\ sockets[s].readyState # "CLOSED"
  /\ LET ss == [sockets EXCEPT ![s].readyState = "CLOSED"]
     IN IF sockets[s].onclose
          THEN Len(closes) < MaxCloses /\ onclose(s, code, ss)
          ELSE /\ sockets' = ss
               /\ UNCHANGED <<incoming, waiters, jobs, probes, closes,
                              socket, wsr>>
  /\ UNCHANGED <<hasConnected, connects, pending, queue, requests, awaiting,
                 events, cache, blockedNumbers, shapes, maxReq, calledClose,
                 codes, inFlight>>
  /\ UNCHANGED <<storeVars, retry, workerVars, count, progress, sendVars, padVars, scanVars>>

\* The "close" event of the WebSocketResource of socket s, which the
\* resource emits once after it was closed when the socket has not
\* closed by then: the listener is called when it is still attached.
ResourceClosed(s, code) ==
  /\ jobs = <<>>
  /\ code \in sockets[s].wsrCodes
  /\ ~sockets[s].wsrEmitted
  /\ sockets[s].readyState # "CLOSED"
  /\ LET ss == [sockets EXCEPT ![s].wsrEmitted = TRUE]
     IN IF sockets[s].listener
          THEN Len(closes) < MaxCloses /\ onclose(s, code, ss)
          ELSE /\ sockets' = ss
               /\ UNCHANGED <<incoming, waiters, jobs, probes, closes,
                              socket, wsr>>
  /\ UNCHANGED <<hasConnected, connects, pending, queue, requests, awaiting,
                 events, cache, blockedNumbers, shapes, maxReq, calledClose,
                 codes, inFlight>>
  /\ UNCHANGED <<storeVars, retry, workerVars, count, progress, sendVars, padVars, scanVars>>

\* close(): calledClose is set, the resource is closed with code 3000,
\* and drain() queues its task.
Close ==
  /\ jobs = <<>>
  /\ ~calledClose
  /\ calledClose' = TRUE
  /\ sockets' = IF wsr = 0 THEN sockets ELSE closeSocket(sockets, wsr, {3000})
  /\ onEmpty(0)
  /\ inFlight' = {i \in DOMAIN requests : requests[i].stage # "done"}
  /\ UNCHANGED <<hasConnected, connects, pending, queue, requests, awaiting,
                 events, cache, blockedNumbers, shapes, maxReq, socket, wsr,
                 probes, closes, codes>>
  /\ UNCHANGED <<storeVars, retry, workerVars, count, progress, sendVars, padVars, scanVars>>

\* getDevices resolves: connect().
ProbeResolved(p) ==
  /\ jobs = <<>>
  /\ probes[p].state = "pending"
  /\ connectReturns \/ connects < MaxConnect
  /\ connect(sockets)
  /\ probes' = [probes EXCEPT ![p].state = "resolved",
                              ![p].late = calledClose,
                              ![p].opened = IF connectReturns THEN 0
                                            ELSE Len(sockets) + 1]
  /\ UNCHANGED <<pending, queue, requests, awaiting, waiters, jobs, cache,
                 blockedNumbers, shapes, maxReq, calledClose, closes, codes,
                 inFlight>>
  /\ UNCHANGED <<storeVars, retry, workerVars, progress, sendVars, padVars, scanVars>>

\* getDevices rejects: an error event is dispatched.
ProbeRejected(p) ==
  /\ jobs = <<>>
  /\ probes[p].state = "pending"
  /\ probes' = [probes EXCEPT ![p].state = "rejected",
                              ![p].late = calledClose]
  /\ events' = Append(events, Ev("error", 0 - probes[p].cause, FALSE))
  /\ UNCHANGED <<hasConnected, connects, incoming, pending, queue, requests,
                 awaiting, waiters, jobs, cache, blockedNumbers, shapes,
                 maxReq, calledClose, sockets, socket, wsr, closes, codes,
                 inFlight>>
  /\ UNCHANGED <<storeVars, retry, workerVars, count, progress, sendVars, padVars, scanVars>>

\* The chain runs the task of drain(), which logs "drained".
RunDrained ==
  /\ jobs = <<>>
  /\ ChainRuns
  /\ \E k \in DOMAIN queue : queue[k].result = "pending"
  /\ ChainCalls(NextTask)
  /\ queue[NextTask].kind = "drained"
  /\ Settle(NextTask, "resolved", NoShape)
  /\ UNCHANGED <<hasConnected, connects, incoming, requests, events, cache,
                 blockedNumbers, shapes, maxReq>>
  /\ UNCHANGED <<storeVars, retry, workerVars, count, sendVars, padVars, scanVars, sockVars>>

NextSocket ==
  \/ Connect
  \/ Close
  \/ \E s \in DOMAIN sockets : \E code \in codes : SocketClosed(s, code)
  \/ \E s \in DOMAIN sockets : \E code \in CloseCodes : ResourceClosed(s, code)
  \/ \E p \in DOMAIN probes : ProbeResolved(p)
  \/ \E p \in DOMAIN probes : ProbeRejected(p)
  \/ QueueDispatch
  \/ DispatchEmpty
  \/ RunDrained

\* A receiver constructed without retryCached, to which the server sends
\* no request; the sockets of one run close with one code, or with 3000
\* or 1006.
InitSocket ==
  /\ hasConnected = FALSE
  /\ connects = 0
  /\ incoming = <<>>
  /\ pending = 0
  /\ queue = <<>>
  /\ requests = <<>>
  /\ awaiting = <<>>
  /\ waiters = {}
  /\ jobs = <<>>
  /\ events = <<>>
  /\ cache = {}
  /\ blockedNumbers = {BlockedNumber}
  /\ shapes = {}
  /\ maxReq = 0
  /\ NoScan
  /\ calledClose = FALSE
  /\ sockets = <<>>
  /\ socket = 0
  /\ wsr = 0
  /\ probes = <<>>
  /\ closes = <<>>
  /\ codes \in {{c} : c \in CloseCodes} \cup {{3000, 1006}}
  /\ inFlight = {}
  /\ FreshStore
  /\ retry = NoRetry
  /\ count = 0
  /\ progress = <<>>
  /\ NoWorker
  /\ NoSend
  /\ messageBuffer = <<>>
  /\ plaintext = NoPlaintext
  /\ unpadded = NotUnpadded

SpecSocket == InitSocket /\ [][NextSocket]_vars

\* close() on a receiver that is receiving: the pipeline, close() and the
\* task of drain().
NextClose ==
  \/ NextRecv
  \/ Close
  \/ RunDrained

InitClose == InitReceiver(MaxEnv, OrderShapes)

SpecClose == InitClose /\ [][NextClose]_vars

\* ------------------------------------------------------------------------
\* message_receiver.js tryMessageAgain: the retry of a stored prekey
\* message.
\*
\* Times are in seconds. The code's are in milliseconds, and startOfJune
\* (1496300400000 there) is a whole number of seconds, so that a time in
\* milliseconds is below it exactly when its whole seconds are.
\* ------------------------------------------------------------------------
startOfJune == 1496300400

\* The fields of a decoded Content and of its dataMessage that the code
\* tests; a decoded plaintext is the set of those that are set (truthy).
ContentFields ==
  {"syncMessage", "dataMessage", "callMessage", "nullMessage",
   "receiptMessage"}

DataFields == {"attachments", "body", "expireTimer", "flags", "group"}

\* A plaintext that Content.decode throws on.
Undecodable == [decodes |-> FALSE, fields |-> {}, data |-> {}]

Plaintexts ==
  {Undecodable}
  \cup {[decodes |-> TRUE, fields |-> f, data |-> d] :
          f \in SUBSET ContentFields, d \in {{}}}
  \cup {[decodes |-> TRUE, fields |-> f, data |-> d] :
          f \in {g \in SUBSET ContentFields : "dataMessage" \in g},
          d \in SUBSET DataFields}

\* message.sent_at of the stored message: 0 stands for a sent_at that is
\* absent or 0, the others lie before, at and after startOfJune.
SentAtValues ==
  {0, 1490000000, startOfJune - 1, startOfJune, startOfJune + 1}

\* What Date.now() answers: a clock that is right, and one that was never
\* set.
NowValues == {startOfJune - 1, startOfJune + 1}

validateRetryContentMessageNever(content) == FALSE

validateRetryContentMessage(content) ==
  IF "syncMessage" \in content.fields THEN FALSE
  ELSE IF Cardinality(content.fields
                      \cap {"dataMessage", "callMessage", "nullMessage"}) # 1
       THEN FALSE
  ELSE IF /\ "dataMessage" \in content.fields
          /\ content.data = {}
       THEN FALSE
  ELSE TRUE

\* const sentAt = message.sent_at || Date.now()
sentAt(message, now) == IF message.sent_at # 0 THEN message.sent_at ELSE now

\* The handler the decrypted plaintext is given to.
retryPath(at, content) ==
  IF at < startOfJune THEN "legacy"
  ELSE IF ~content.decodes THEN "legacy"
  ELSE IF validateRetryContentMessage(content) THEN "content"
  ELSE "legacy"

\* tryMessageAgain up to the call of decryptPreKeyWhisperMessage: it reads
\* the clock.
TryMessageAgain(now) ==
  /\ retry.pc = "idle"
  /\ retry' = [retry EXCEPT !.pc = "decrypting", !.now = now]
  /\ UNCHANGED <<sendVars, padVars>>
  /\ UNCHANGED <<hasConnected, connects, incoming, pending, queue, requests,
                 awaiting, waiters, jobs, events, cache, blockedNumbers,
                 shapes, maxReq, scanVars, sockVars, storeVars, workerVars,
                 count, progress>>

\* decryptPreKeyWhisperMessage settles: when it resolves, the plaintext is
\* given to one of the two handlers; when it rejects, to neither.
RetryDecrypted(ok) ==
  /\ retry.pc = "decrypting"
  /\ retry' =
       [retry EXCEPT
          !.pc = "done",
          !.path = IF ok
                   THEN retryPath(sentAt(retry.message, retry.now),
                                  retry.plaintext)
                   ELSE "failed"]
  /\ UNCHANGED <<sendVars, padVars>>
  /\ UNCHANGED <<hasConnected, connects, incoming, pending, queue, requests,
                 awaiting, waiters, jobs, events, cache, blockedNumbers,
                 shapes, maxReq, scanVars, sockVars, storeVars, workerVars,
                 count, progress>>

NextRetry ==
  \/ \E now \in NowValues : TryMessageAgain(now)
  \/ \E ok \in BOOLEAN : RetryDecrypted(ok)

InitRetry ==
  /\ NoSend
  /\ NoRecv
  /\ messageBuffer = <<>>
  /\ plaintext = NoPlaintext
  /\ unpadded = NotUnpadded
  /\ \E m \in SentAtValues, p \in Plaintexts :
       retry = [message |-> [sent_at |-> m], plaintext |-> p, now |-> 0,
                pc |-> "idle", path |-> "none"]

SpecRetry == InitRetry /\ [][NextRetry]_vars

\* ------------------------------------------------------------------------
\* The utility worker: the registry of its jobs
\* ------------------------------------------------------------------------

\* What is left unchanged by the steps of the worker's jobs.
NoOtherChange ==
  UNCHANGED <<sendVars, padVars, hasConnected, connects, incoming, pending,
              queue, requests, awaiting, waiters, jobs, events, cache,
              blockedNumbers, shapes, maxReq, scanVars, sockVars, storeVars,
              retry, count, progress>>

\* _makeJob: _jobCounter += 1; const id = _jobCounter.
makeJob(counter) == counter + 1

\* A settled promise keeps its settlement; a pending one takes the new.
settle(state, to) == IF state = "pending" THEN to ELSE state

\* The futures after the resolve or reject captured for job id is called.
settleJob(fs, id, to) ==
  [c \in DOMAIN fs |->
     IF fs[c].id = id THEN [fs[c] EXCEPT !.state = settle(@, to)]
     ELSE fs[c]]

\* The timer calling the reject that _updateJob wrapped: it removes the
\* entry.
timeoutRemovesJob(registry, id) == registry \ {id}

\* The timer calls the reject of the promise itself, not the one stored
\* in the registry: the entry stays.
timeoutKeepsJob(registry, id) == registry

\* callWorker(fnName, ...args): a job is made, posted to the worker and
\* its timer is set; all in one turn.
CallWorker ==
  /\ jobCounter < MaxJobs
  /\ LET id == makeJob(jobCounter)
     IN /\ jobCounter' = id
        /\ workerJobs' = workerJobs \cup {id}
        /\ futures' = Append(futures, [id |-> id, state |-> "pending"])
        /\ timers' = timers \cup {id}
  /\ UNCHANGED reply
  /\ NoOtherChange

\* setTimeout fires for job id, WORKER_TIMEOUT after the call, whether or
\* not the worker has replied.
WorkerTimeout(id) ==
  /\ id \in timers
  /\ timers' = timers \ {id}
  /\ futures' = settleJob(futures, id, "timed out")
  /\ workerJobs' = timeoutKeepsJob(workerJobs, id)
  /\ UNCHANGED <<jobCounter, reply>>
  /\ NoOtherChange

\* _utilWorker.onmessage with [jobId, errorForDisplay, result].
OnMessage(jobId, errorForDisplay) ==
  /\ IF jobId \notin workerJobs
       THEN /\ reply' = [id |-> jobId, error |-> errorForDisplay,
                         threw |-> TRUE]
            /\ UNCHANGED <<workerJobs, futures>>
       ELSE /\ reply' = [id |-> jobId, error |-> errorForDisplay,
                         threw |-> FALSE]
            /\ workerJobs' = workerJobs \ {jobId}
            /\ futures' = settleJob(futures, jobId,
                             IF errorForDisplay THEN "worker error"
                             ELSE "resolved")
  /\ UNCHANGED <<jobCounter, timers>>
  /\ NoOtherChange

\* The worker answers jobs in any order, after any time, and may answer
\* twice or for an id it was never given.
NextWorker ==
  \/ CallWorker
  \/ \E id \in timers : WorkerTimeout(id)
  \/ \E jobId \in 1..(MaxJobs + 1), errorForDisplay \in BOOLEAN :
       OnMessage(jobId, errorForDisplay)

InitWorker ==
  /\ NoSend
  /\ NoRecv
  /\ retry = NoRetry
  /\ messageBuffer = <<>>
  /\ plaintext = NoPlaintext
  /\ unpadded = NotUnpadded

SpecWorker == InitWorker /\ [][NextWorker]_vars

\* ------------------------------------------------------------------------
\* Claims
\* ------------------------------------------------------------------------
AllSent == \A n \in NumberSet : snd[n].pc = "done"

ErrorsOf(n) == {i \in DOMAIN errors : errors[i].number = n}

SuccessesOf(n) == {i \in DOMAIN successfulNumbers : successfulNumbers[i] = n}

\* C5: the final callback is invoked exactly once, and only when
\* numbersCompleted equals the number of recipients: it has not been invoked
\* before every number is completed, it has been invoked once when every
\* sendToNumber has ended, and never a second time.
C5_CallbackExactlyOnce ==
  /\ callbackCalls <= 1
  /\ numbersCompleted <= Len(numbers)
  /\ (callbackCalls = 1) <=> (numbersCompleted = Len(numbers))
  /\ AllSent => callbackCalls = 1

C5_Witness ==
  /\ Len(numbers) = 2
  /\ AllSent
  /\ callbackCalls = 1
  /\ Len(errors) = 1
  /\ Len(successfulNumbers) = 1

\* The errors registered for n, as a set of reasons.
ReasonsOf(n) == {errors[i].reason : i \in ErrorsOf(n)}

\* sendToNumber(n) has ended by registering exactly one error and no success.
EndedInError(n) ==
  /\ snd[n].pc = "done"
  /\ Cardinality(ErrorsOf(n)) = 1
  /\ SuccessesOf(n) = {}

\* C6: one sendToNumber performs a bounded number of POSTs and eventually
\* completes its number, whatever the server answers.
C6_SendCompletes == <>AllSent

\* sendToNumber(n) whose first POST was answered 410.
First410(n) == snd[n].posts >= 1 /\ snd[n].first.resp.code = 410

\* The parts of C7 that hold on every path: the sessions of the stale devices
\* are closed, the retry is made with recurse = false after fetching keys
\* for the stale devices in order, a 409 or 410 to the second POST registers
\* the retry-limit error and completes the number, and no third POST is made.
C7_Recovery(n) ==
  LET s == snd[n]
      S == s.first.resp.stale
  IN First410(n) =>
       /\ (s.pc = "keys" /\ s.posts = 1 /\ s.fetched = <<>>) =>
             \A d \in S : sessions[n][d] = "closed"
       /\ (s.pc \in {"encrypt", "post"} /\ s.posts = 1) =>
             /\ ~s.recurse
             /\ s.fetched = SetToSeq(S)
       /\ s.posts <= 2
       /\ (s.posts = 2 /\ s.lastCode \in {409, 410}) =>
             /\ EndedInError(n)
             /\ ReasonsOf(n) = {ReasonRetryLimit}

First409(n) ==
  /\ snd[n].posts >= 1
  /\ snd[n].first.devs = {1, 2}
  /\ snd[n].first.resp.code = 409
  /\ snd[n].first.resp.extra = {2}
  /\ snd[n].first.resp.missing = {3}

\* The parts of C8 that hold on every path: the session of device 2 is
\* removed, keys are fetched for device 3 only, the retry goes to the devices
\* the Store then lists, and a successful second POST puts the number in
\* successfulNumbers with no error for it.
C8_Recovery(n) ==
  LET s == snd[n]
  IN First409(n) =>
       /\ (s.pc = "keys" /\ s.posts = 1) => sessions[n][2] = "none"
       /\ (s.pc \in {"encrypt", "post"} /\ s.posts = 1) =>
             /\ s.fetched = <<3>>
             /\ s.recurse
             /\ s.devs = getDeviceIds(n)
             /\ sessions[n][3] = "open" => s.devs = {1, 3}
       /\ (s.posts = 2 /\ s.lastCode = 200) =>
             /\ s.pc = "done"
             /\ Cardinality(SuccessesOf(n)) = 1
             /\ ErrorsOf(n) = {}

\* C8 as claimed: a second POST is made, and it goes to devices [1,3].
C8_Original ==
  \A n \in NumberSet :
    /\ C8_Recovery(n)
    /\ (First409(n) /\ snd[n].pc = "post" /\ snd[n].posts = 1) =>
          snd[n].devs = {1, 3}
    /\ (First409(n) /\ snd[n].pc = "done") => snd[n].posts >= 2

\* C8 as amended: the second POST goes to [1,3] when the key fetch for
\* device 3 succeeds (to [1] when the server answers it 404), and it is made
\* unless the key fetch or the encryption for the retry fails, which ends the
\* number with one registered error.
C8_Amended ==
  \A n \in NumberSet :
    /\ C8_Recovery(n)
    /\ (First409(n) /\ snd[n].pc = "post" /\ snd[n].posts = 1) =>
          snd[n].devs = IF sessions[n][3] = "open" THEN {1, 3} ELSE {1}
    /\ (First409(n) /\ snd[n].pc = "done") =>
          \/ snd[n].posts >= 2
          \/ /\ EndedInError(n)
             /\ ReasonsOf(n) \subseteq {ReasonKeys, ReasonIdentity, ReasonSend}

C8_Witness ==
  \E n \in NumberSet :
    /\ First409(n)
    /\ snd[n].posts = 2
    /\ snd[n].lastCode = 200
    /\ snd[n].devs = {1, 3}
    /\ successfulNumbers = <<n>>
    /\ errors = <<>>
    /\ callbackCalls = 1

\* The codes of a transport failure of sendMessages: an HTTP error other
\* than 409 and 410, or a network error.
TransportFailures == {404, 500, -1}

\* C9: a transport failure of the POST for one number registers one error
\* for that number only; every number whose POST succeeds is in
\* successfulNumbers once and has no error; and when every number has ended
\* the callback has fired with both lists.
C9_TransportFailureIsPerNumber ==
  /\ \A n \in NumberSet :
       (snd[n].pc = "done" /\ snd[n].lastCode \in TransportFailures) =>
          /\ EndedInError(n)
          /\ ReasonsOf(n) = {ReasonSend}
  /\ \A n \in NumberSet :
       (snd[n].pc = "done" /\ snd[n].lastCode = 200) =>
          /\ Cardinality(SuccessesOf(n)) = 1
          /\ ErrorsOf(n) = {}
  /\ \A i \in DOMAIN errors : snd[errors[i].number].pc = "done"
  /\ AllSent =>
       /\ callbackCalls = 1
       /\ callbackArg = [successfulNumbers |-> successfulNumbers,
                         errors |-> errors]

C9_Witness ==
  /\ Len(numbers) = 2
  /\ AllSent
  /\ snd[NumberA].lastCode = 500
  /\ snd[NumberB].lastCode = 200
  /\ successfulNumbers = <<NumberB>>
  /\ Len(errors) = 1
  /\ errors[1].number = NumberA
  /\ errors[1].name = "SendMessageNetworkError"
  /\ callbackCalls = 1

\* C10: unpad applied to the padded plaintext built by getPlaintext returns
\* exactly the plaintext that was padded.
C10_UnpadInvertsPad ==
  unpadded # NotUnpadded =>
    unpadded = [kind |-> "plaintext", bytes |-> messageBuffer]

C10_Witness ==
  /\ unpadded.kind = "plaintext"
  /\ Len(messageBuffer) = BLOCK - 1
  /\ messageBuffer[Len(messageBuffer)] = TERMINATOR
  /\ messageBuffer[1] = 0

\* C11 as stated: the length of the padded plaintext is a multiple of 160.
C11_Original ==
  plaintext # NoPlaintext => Len(plaintext) % BLOCK = 0

\* C11: the length of the padded plaintext is one less than a multiple of
\* 160: (len(pad(P)) + 1) mod 160 = 0.
C11_PaddedLengthPlusOne ==
  plaintext # NoPlaintext => (Len(plaintext) + 1) % BLOCK = 0

C11_Witness ==
  /\ plaintext # NoPlaintext
  /\ Len(messageBuffer) = BLOCK
  /\ Len(plaintext) = 2 * BLOCK - 1

\* C12: a plaintext of length L is padded to 160 * ceil((L+2)/160) - 1
\* bytes: the plaintext, then 0x80, then only 0x00, so that the last
\* non-zero byte is the terminator.
C12_PaddedLayout ==
  plaintext # NoPlaintext =>
    LET L == Len(messageBuffer)
    IN /\ Len(plaintext) = BLOCK * ((L + 2 + BLOCK - 1) \div BLOCK) - 1
       /\ \A i \in 1..L : plaintext[i] = messageBuffer[i]
       /\ plaintext[L + 1] = TERMINATOR
       /\ \A i \in (L + 2)..Len(plaintext) : plaintext[i] = 0
       /\ LastNonZero(plaintext) = L + 1

C12_Witness ==
  /\ plaintext # NoPlaintext
  /\ Len(messageBuffer) = BLOCK - 2
  /\ Len(plaintext) = BLOCK - 1
  /\ plaintext[BLOCK - 1] = TERMINATOR

\* ------------------------------------------------------------------------
\* The receive pipeline
\* ------------------------------------------------------------------------
IsMessage(i) == requests[i].path = "/api/v1/message"

Acked(i) == 200 \in Range(requests[i].responses)

EnvelopeTasks == {k \in DOMAIN queue : queue[k].kind = "envelope"}

EmptyTasks == {k \in DOMAIN queue : queue[k].kind = "empty"}

\* C1: the envelopes that are dispatched are dispatched in the order their
\* requests arrived: of two envelope tasks of the chain, the one added
\* first belongs to the request that arrived first.
C1_DispatchInArrivalOrder ==
  \A p \in EnvelopeTasks : \A q \in EnvelopeTasks :
    p < q => queue[p].req < queue[q].req

\* C2 as stated: no message request is answered 200 unless its envelope
\* has been written to the unprocessed cache.
C2_Original ==
  \A i \in DOMAIN requests :
    IsMessage(i) /\ Acked(i) => requests[i].cached

\* C2: a message request whose envelope does not come from a blocked
\* source is answered 200 only after addToCache has written the envelope
\* to the unprocessed cache; an envelope from a blocked source is answered
\* 200, and nothing else, without being cached.
C2_AckAfterCache ==
  \A i \in DOMAIN requests :
    IsMessage(i) =>
      /\ Acked(i) /\ ~requests[i].blockedSource => requests[i].cached
      /\ requests[i].blockedSource =>
           ~requests[i].cached /\ requests[i].responses = <<200>>

C2_Witness ==
  /\ \E i \in DOMAIN requests :
       IsMessage(i) /\ Acked(i) /\ requests[i].cached /\ i \in cache
  /\ \E j \in DOMAIN requests :
       IsMessage(j) /\ Acked(j) /\ requests[j].blockedSource

\* The envelope of request i has been accepted from the socket.
Accepted(i) == IsMessage(i) /\ requests[i].cached /\ Acked(i)

Queued(i) == \E k \in EnvelopeTasks : queue[k].req = i

TaskOf(i) == CHOOSE k \in EnvelopeTasks : queue[k].req = i

\* Nothing more will happen to the envelope of request i by itself.
Processed(i) ==
  /\ requests[i].stage = "done"
  /\ Queued(i) => queue[TaskOf(i)].result # "pending"

EventsOf(i) == {e \in DOMAIN events : events[e].req = i}

ErrorsAbout(i) == {e \in EventsOf(i) : events[e].type \in ErrorTypes}

DispatchesOf(i) == EventsOf(i) \ ErrorsAbout(i)

\* The item of request i is in the cache unless a confirm() of one of its
\* events has been called.
ConfirmRemoves(i) ==
  (i \in cache) <=> (\A e \in EventsOf(i) : ~events[e].confirmed)

DecryptFailed(env) ==
  env.type # "RECEIPT" /\ env.body # "none" /\ decryptFails(env)

\* The envelopes handleEnvelope drops, or gives up on, without any event.
SilentShape(env) ==
  \/ env.body = "none"
  \/ env.payload \in {"undecodable", "nullMessage", "callMessage", "none",
                      "syncMessage.blocked", "syncMessage.request",
                      "syncMessage.none"}
  \/ env.payload \in SyncPayloads
       /\ (env.source # OurNumber \/ env.sourceDevice = OurDeviceId)
  \/ env.n = 0 /\ env.payload \in {"receiptMessage.DELIVERY",
                                  "receiptMessage.READ", "syncMessage.read"}
  \/ env.flags = {"other"}
  \/ env.group \in {"blocked", "blockedQuit", "unknownType"}
  \/ env.blob = "fail"

C4_EmptyAfterMessages ==
  \A p \in EmptyTasks : \A q \in EnvelopeTasks :
    queue[q].req < queue[p].req => q < p

\* ------------------------------------------------------------------------
\* Claims: the startup scan
\* ------------------------------------------------------------------------

\* The scan has read the count of the Store.
Counted == scan.pc \notin {"off", "countUnprocessed"}

\* The ids of the items the Store holds of those it held at first.
StoredIds == {unprocessed[j].id : j \in DOMAIN unprocessed}

\* The tasks of the chain that dispatch cached items.
CachedTasks ==
  {k \in DOMAIN queue :
     queue[k].kind \in {"queueEnvelope", "queueDecryptedEnvelope"}}

\* C13: when the Store reports more than 250 unprocessed items to a
\* receiver constructed with retryCached, the whole cache is removed: once
\* queueAllCached has ended the Store holds no unprocessed item, and no
\* cached item has been enqueued or dispatched. When it reports 250 or
\* fewer, removeAllUnprocessed is never called: the Store still holds all
\* its items when they are loaded, and all of them are loaded.
C13_PurgeAbovePurgeLimit ==
  /\ (Counted /\ scan.count > PurgeLimit) =>
       /\ scan.pc \in {"removeAllUnprocessed", "done"}
       /\ scan.pc = "done" =>
            /\ unprocessed = <<>>
            /\ untracked = 0
            /\ cache = {}
            /\ queue = <<>>
            /\ events = <<>>
  /\ (Counted /\ scan.count <= PurgeLimit) =>
       /\ scan.pc # "removeAllUnprocessed"
       /\ scan.pc = "getAllUnprocessed" =>
            Len(unprocessed) + untracked = scan.count
       /\ scan.pc # "getAllUnprocessed" => Len(scan.items) = scan.count

\* A Store of 251 items has been purged by the scan.
C13_Witness ==
  /\ scan.pc = "done"
  /\ scan.count = PurgeLimit + 1
  /\ unprocessed = <<>>
  /\ untracked = 0

\* A task of a cached item has run.
CachedTaskRan == \E k \in CachedTasks : queue[k].result # "pending"

\* The item of the Store with the given id.
StoredItem(id) ==
  unprocessed[CHOOSE j \in DOMAIN unprocessed : unprocessed[j].id = id]

\* The write of the scan for the loaded item has been done: the item is
\* gone from the Store when its incremented attempts is 3 or more; else
\* it is in the Store as loaded, with attempts one higher, unless it has
\* been removed since.
WriteDone(it, removable) ==
  IF 1 + it.attempts >= 3 THEN it.id \notin StoredIds
  ELSE /\ removable \/ it.id \in StoredIds
       /\ it.id \in StoredIds =>
            StoredItem(it.id) = [it EXCEPT !.attempts = it.attempts + 1]

RanFor(id) ==
  {k \in CachedTasks : queue[k].req = id /\ queue[k].result # "pending"}

Survivors == {j \in DOMAIN scan.items : 1 + scan.items[j].attempts < 3}

\* The task of the chain for the j-th loaded item.
CachedTaskOf(j) ==
  CHOOSE k \in CachedTasks : queue[k].req = scan.items[j].id

\* C16: when queueAllCached has ended, every surviving item has been
\* enqueued for dispatch, and the tasks of the items are on the chain in
\* the order in which the Store returned the items.
C16_SurvivorsDispatchedInOrder ==
  scan.pc = "done" =>
    /\ \A j \in Survivors :
         \E k \in CachedTasks : queue[k].req = scan.items[j].id
    /\ \A i, j \in Survivors : i < j => CachedTaskOf(i) < CachedTaskOf(j)

\* ------------------------------------------------------------------------
\* Claims: the socket supervisor
\* ------------------------------------------------------------------------

\* C17: once close() has been called the receiver is terminal: no step
\* taken afterwards, be it a connect() call, a close event of a socket or
\* of its resource with any code, or the completion of a getDevices probe
\* started earlier, opens a message socket or starts a probe, and
\* calledClose stays set.
C17_TerminalAfterClose ==
  [][calledClose =>
       /\ calledClose'
       /\ Len(sockets') = Len(sockets)
       /\ Len(probes') = Len(probes)
       /\ connects' = connects]_vars

\* After close(), a probe started before it has resolved and called
\* connect(), and onclose has handled a close event.
C17_Witness ==
  /\ calledClose
  /\ \E p \in DOMAIN probes : probes[p].state = "resolved" /\ probes[p].late
  /\ \E c \in DOMAIN closes : closes[c].calledClose

\* The close events onclose has handled while close() had not been
\* called.
OpenCloses == {c \in DOMAIN closes : ~closes[c].calledClose}

\* The getDevices probes made by the onclose call for close event c.
ProbesOf(c) == {p \in DOMAIN probes : probes[p].cause = c}

\* The onclose call for close event c has called onEmpty(): its
\* queueDispatch is waiting or due, or its task is on the chain.
EmptyAsked(c) ==
  \/ \E w \in waiters : w.req = 0 - c
  \/ \E j \in DOMAIN jobs : jobs[j].i = 0 - c
  \/ \E k \in EmptyTasks : queue[k].req = 0 - c

\* The error events dispatched for the failed probe of close event c.
ProbeErrors(c) ==
  {e \in DOMAIN events : events[e].type = "error" /\ events[e].req = 0 - c}

\* One probe was made for close event c; connect() opened a socket for
\* it exactly if the probe succeeded while close() had still not been
\* called, and exactly a failed probe has dispatched one error event.
OneProbe(c) ==
  /\ Cardinality(ProbesOf(c)) = 1
  /\ \A p \in ProbesOf(c) :
       /\ probes[p].opened # 0 <=>
            (probes[p].state = "resolved" /\ ~probes[p].late)
       /\ probes[p].opened # 0 => probes[p].opened \in DOMAIN sockets
       /\ Cardinality(ProbeErrors(c)) =
            IF probes[p].state = "rejected" THEN 1 ELSE 0

C19_CloseCodeDecides ==
  \A c \in OpenCloses :
    /\ closes[c].code = 3000 =>
         ProbesOf(c) = {} /\ ~EmptyAsked(c) /\ ProbeErrors(c) = {}
    /\ closes[c].code \notin {3000, 3001} => OneProbe(c) /\ ~EmptyAsked(c)

\* Two closes with code 1006 while close() had not been called: the probe
\* of one succeeded and reconnected, the probe of the other failed and
\* dispatched an error event.
C19_Witness ==
  \E c1, c2 \in OpenCloses :
    /\ closes[c1].code = 1006
    /\ \E p \in ProbesOf(c1) :
         probes[p].state = "resolved" /\ probes[p].opened # 0
    /\ closes[c2].code = 1006
    /\ \E p \in ProbesOf(c2) : probes[p].state = "rejected"
    /\ ProbeErrors(c2) # {}

\* The sockets that are open.
OpenSockets == {s \in DOMAIN sockets : sockets[s].readyState = "OPEN"}

\* C20: in every reachable state at most one message socket is open, and
\* an open socket is the receiver's connection: it is this.socket, its
\* resource is this.wsr, and its onclose handler and the resource's
\* "close" listener are attached. So no close event of an earlier socket
\* or of its resource detaches, orphans or duplicates the connection.
C20_OneLiveSocket ==
  /\ Cardinality(OpenSockets) <= 1
  /\ \A s \in OpenSockets :
       /\ socket = s
       /\ wsr = s
       /\ sockets[s].onclose
       /\ sockets[s].listener

\* ------------------------------------------------------------------------
\* Claims: close()
\* ------------------------------------------------------------------------

\* The tasks of drain() whose promise, and with it the promise close()
\* returned, has settled.
DrainedTasks ==
  {k \in DOMAIN queue : queue[k].kind = "drained"
                          /\ queue[k].result # "pending"}

\* The chain half of C21: every task added to the chain before a settled
\* "drained" task has settled.
ChainSettledBeforeDrained ==
  \A k \in DrainedTasks : \A j \in 1..(k - 1) : queue[j].result # "pending"

\* C21: when the promise returned by close() has resolved, every handler
\* that was in flight when close() was called has ended, and every task
\* added to the chain before the "drained" task has settled.
C21_CloseAwaitsHandlersAndChain ==
  /\ DrainedTasks # {} => \A i \in inFlight : requests[i].stage = "done"
  /\ ChainSettledBeforeDrained

\* ------------------------------------------------------------------------
\* Claims: the tasks of the chain
\* ------------------------------------------------------------------------

\* The events that only a sync message leads to.
SyncDerived ==
  {"sent", "contact", "contactsync", "group", "groupsync", "readSync",
   "verified", "configuration"}

\* The task of env calls handleSyncMessage.
IsSync(env) ==
  /\ env.type # "RECEIPT"
  /\ env.body = "content"
  /\ ~decryptFails(env)
  /\ env.payload \in SyncPayloads

\* Task k settles in this step.
SettlesNow(k) == queue[k].result = "pending" /\ queue'[k].result # "pending"

\* The events dispatched in this step.
NewEvents == (Len(events) + 1)..Len(events')

\* C22: a task whose sync message does not come from the receiver's
\* number, or comes from the receiver's own device, rejects, dispatches no
\* event and leaves the blocked list, the groups, the sessions and the
\* cache of the Store as they are; and every sync-derived event is
\* dispatched by the task of a sync message from the receiver's number
\* and another device.
C22_SyncOnlyFromOtherOwnDevice ==
  [][/\ \A k \in DOMAIN queue :
          /\ SettlesNow(k)
          /\ queue[k].kind = "envelope"
          /\ IsSync(queue'[k].env)
          /\ \/ queue'[k].env.source # OurNumber
             \/ queue'[k].env.sourceDevice = OurDeviceId
          => /\ queue'[k].result = "rejected"
             /\ events' = events
             /\ blockedNumbers' = blockedNumbers
             /\ groupWrites' = groupWrites
             /\ storeSessions' = storeSessions
             /\ cache' = cache
     /\ \A e \in NewEvents :
          events'[e].type \in SyncDerived =>
            \E k \in DOMAIN queue :
              /\ SettlesNow(k)
              /\ queue[k].req = events'[e].req
              /\ IsSync(queue'[k].env)
              /\ queue'[k].env.source = OurNumber
              /\ queue'[k].env.sourceDevice # OurDeviceId]_vars

\* A sync message that sets the blocked list, sent from the receiver's
\* own number and device, has been rejected, and the blocked list is as
\* it was.
C22_Witness ==
  \E k \in DOMAIN queue :
    /\ queue[k].kind = "envelope"
    /\ queue[k].result = "rejected"
    /\ queue[k].env.payload = "syncMessage.blocked"
    /\ queue[k].env.source = OurNumber
    /\ queue[k].env.sourceDevice = OurDeviceId
    /\ blockedNumbers = {BlockedNumber}

\* Every session record the Store holds for a number has the status.
AllSessions(sessions_, number, status) ==
  \A d \in DOMAIN sessions_[number] : sessions_[number][d] = status

\* Task k calls handleEndSession in this step.
EndsSessionNow(k) ==
  queue[k].result = "pending" /\ NotStarted(k) /\ ~NotStarted(k)'
  /\ queue'[k].result = "pending"

\* C23: the task of a data message with the END_SESSION bit calls
\* deleteAllSessionsForDevice for every device id the Store holds for the
\* source; its 'message' event is dispatched only when all these calls
\* have completed, and the message of that event has no body, no
\* attachment and no group.
C23_EndSessionBeforeMessage ==
  [][\A k \in DOMAIN queue :
       LET env == queue'[k].env
       IN /\ EndsSessionNow(k) /\ env.payload = "dataMessage"
             => AllSessions(storeSessions', env.source, "deleting")
          /\ /\ SettlesNow(k)
             /\ queue[k].kind = "envelope"
             /\ env.payload = "dataMessage"
             /\ "END_SESSION" \in env.flags
             => /\ queue[k].env = env
                /\ AllSessions(storeSessions, env.source, "deleted")
                /\ Len(events') = Len(events) + 1
                /\ \A e \in NewEvents :
                     /\ events'[e].type = "message"
                     /\ events'[e].message =
                          [body |-> "null", attachments |-> 0,
                           group |-> "null"]]_vars

\* The 'message' event of a data message that has END_SESSION and another
\* bit set, a body, an attachment and a blocked group has been
\* dispatched, after both sessions of the peer were deleted.
C23_Witness ==
  \E e \in DOMAIN events : \E k \in DOMAIN queue :
    /\ events[e].type = "message"
    /\ events[e].message.body = "null"
    /\ queue[k].req = events[e].req
    /\ queue[k].result = "resolved"
    /\ queue[k].env.flags = {"END_SESSION", "other"}
    /\ queue[k].env.text = "hello"
    /\ queue[k].env.attachments = 1
    /\ queue[k].env.group = "blocked"
    /\ AllSessions(storeSessions, PeerNumber, "deleted")

\* The task of env calls processDecrypted: for a data message, or for the
\* sent transcript of a sync message that handleSyncMessage accepts.
IsProcessed(env) ==
  /\ env.type # "RECEIPT"
  /\ ~decryptFails(env)
  /\ \/ env.body \in {"content", "legacyMessage"}
        /\ env.payload = "dataMessage"
     \/ env.body = "content" /\ env.payload = "syncMessage.sent"
        /\ fromOtherOwnDevice(env)

\* The settled tasks whose message has the given flags.
ProcessedWith(flagSets) ==
  {k \in DOMAIN queue :
     /\ queue[k].kind = "envelope"
     /\ queue[k].result # "pending"
     /\ IsProcessed(queue[k].env)
     /\ queue[k].env.flags \in flagSets}

\* Task k has rejected and no 'message' or 'sent' event was dispatched
\* for its request.
RejectedUnseen(k) ==
  /\ queue[k].result = "rejected"
  /\ \A e \in DOMAIN events :
       events[e].req = queue[k].req => events[e].type \notin {"message", "sent"}

\* The part of C24 for flags with no known bit set.
OnlyUnknownFlagsRejected ==
  \A k \in ProcessedWith({f \in SUBSET FlagBits :
                            f # {} /\ f \cap KnownFlags = {}}) :
    RejectedUnseen(k)

\* C24: a message whose flags have a bit set outside END_SESSION,
\* EXPIRATION_TIMER_UPDATE and PROFILE_KEY_UPDATE, alone or together with
\* known bits, is rejected by processDecrypted, and no 'message' or
\* 'sent' event is dispatched for it.
C24_UnknownFlagsRejected ==
  /\ OnlyUnknownFlagsRejected
  /\ \A k \in ProcessedWith({f \in SUBSET FlagBits :
                               f \ KnownFlags # {}
                               /\ f \cap KnownFlags # {}}) :
       RejectedUnseen(k)

\* ------------------------------------------------------------------------
\* Claims: identity key errors of a send
\* ------------------------------------------------------------------------

\* The error sendToNumber registers for a changed identity key.
IdentityError(n) ==
  [number |-> n, reason |-> ReasonIdentity,
   name |-> "OutgoingIdentityKeyError"]

\* processPreKey or encrypt throws "Identity key changed" for n in this
\* step.
ThrowsIdentityNow(n) ==
  snd[n].thrown = NullError /\ snd'[n].thrown = IdentityKeyChanged

\* C25: when processPreKey (before the first POST or in a 409/410
\* recovery) or encrypt throws "Identity key changed" for a number, one
\* OutgoingIdentityKeyError with reason "Identity key changed" is
\* registered for the number, the only one it ever has, the number is
\* completed and sendToNumber ends without a POST for that attempt.
C25_IdentityKeyErrorSurfaces ==
  [][\A n \in NumberSet :
       ThrowsIdentityNow(n) =>
         /\ errors' = Append(errors, IdentityError(n))
         /\ \A e \in DOMAIN errors : errors[e].number # n
         /\ n \notin Range(successfulNumbers')
         /\ numbersCompleted' = numbersCompleted + 1
         /\ snd'[n].pc = "done"
         /\ snd'[n].posts = snd[n].posts]_vars

\* A number has its identity key error after a POST that was answered
\* 409 and a key fetch of the recovery, and another number has it from
\* the encryption of its first attempt.
C25_Witness ==
  \E n, m \in NumberSet :
    /\ snd[n].thrown = IdentityKeyChanged
    /\ snd[n].posts = 1
    /\ snd[n].lastCode = 409
    /\ snd[n].fetched # <<>>
    /\ snd[m].thrown = IdentityKeyChanged
    /\ snd[m].posts = 0
    /\ snd[m].devs # {}
    /\ \E e \in DOMAIN errors : errors[e] = IdentityError(n)
    /\ \E e \in DOMAIN errors : errors[e] = IdentityError(m)

\* ------------------------------------------------------------------------
\* Claims: a failure of addToCache
\* ------------------------------------------------------------------------

\* The handler of request i has ended, its envelope was decoded and did
\* not come from a blocked source, and addToCache did not write it.
FailedToCache(i) ==
  /\ requests[i].path = "/api/v1/message"
  /\ requests[i].stage = "done"
  /\ requests[i].envelope # NoEnvelope
  /\ ~requests[i].blockedSource
  /\ ~requests[i].cached

\* C26: a request whose addToCache failed is answered 500 and nothing
\* else, its envelope is neither in the cache nor on the chain, and no
\* event is dispatched for it.
C26_CacheFailureAnswered500 ==
  \A i \in DOMAIN requests :
    FailedToCache(i) =>
      /\ requests[i].responses = <<500>>
      /\ i \notin cache
      /\ \A k \in DOMAIN queue : queue[k].req # i
      /\ \A e \in DOMAIN events : events[e].req # i

\* The addToCache of the first request has failed, and the envelope of
\* the second, received after it, has been dispatched.
C26_Witness ==
  /\ Len(requests) >= 2
  /\ FailedToCache(1)
  /\ requests[1].responses = <<500>>
  /\ \E e \in DOMAIN events : events[e].req = 2 /\ events[e].type = "message"

\* ------------------------------------------------------------------------
\* Claims: tryMessageAgain
\* ------------------------------------------------------------------------
\* The plaintext of the retry was decrypted and given to a handler.
RetryDispatched == retry.pc = "done" /\ retry.path # "failed"

\* The conditions on the decoded Content, in the words of the claim.
RetryContentValid ==
  /\ retry.plaintext.decodes
  /\ "syncMessage" \notin retry.plaintext.fields
  /\ \E f \in {"dataMessage", "callMessage", "nullMessage"} :
       retry.plaintext.fields
         \cap {"dataMessage", "callMessage", "nullMessage"} = {f}
  /\ "dataMessage" \in retry.plaintext.fields
       => retry.plaintext.data # {}

\* The time the retry compares: sent_at, or the time of the call when the
\* message has none.
RetrySentTime ==
  IF retry.message.sent_at # 0 THEN retry.message.sent_at ELSE retry.now

\* C27 (as stated): the decrypted plaintext goes through the Content path
\* if and only if sent_at >= 1496300400000 ms, the Content decodes and
\* validateRetryContentMessage holds; in every other case it goes through
\* the legacy path.
C27_ContentIffSentAtRecentAndValid ==
  RetryDispatched
    => /\ retry.path \in {"content", "legacy"}
       /\ retry.path = "content"
            <=> /\ retry.message.sent_at >= startOfJune
                /\ RetryContentValid

\* C27 (amended): the decrypted plaintext goes through the Content path if
\* and only if the sent time -- sent_at, or the current time when the
\* message has no sent_at -- is >= 1496300400000 ms, the Content decodes
\* and validateRetryContentMessage holds; in every other case it goes
\* through the legacy path.
C27_ContentIffSentTimeRecentAndValid ==
  RetryDispatched
    => /\ retry.path \in {"content", "legacy"}
       /\ retry.path = "content"
            <=> /\ RetrySentTime >= startOfJune
                /\ RetryContentValid

\* A message without sent_at whose plaintext is a valid Content went
\* through the Content path.
C27_Witness ==
  /\ RetryDispatched
  /\ retry.message.sent_at = 0
  /\ retry.path = "content"
  /\ retry.plaintext.fields = {"dataMessage", "receiptMessage"}

\* ------------------------------------------------------------------------
\* Claims: the plaintext of a send
\* ------------------------------------------------------------------------
\* This step is the encryption of an attempt of number n: doSendMessage
\* has called getPlaintext and passes what it returned, this.plaintext, to
\* encrypt for every device of the attempt.
EncryptsNow(n) == snd[n].pc = "encrypt" /\ snd'[n].pc # "encrypt"

\* C28: the padded plaintext passed to encrypt is the same bytes for every
\* device of a number in one attempt, across retries and across numbers:
\* it is computed once, from the encoded message, and never changed
\* afterwards.
C28_PlaintextComputedOnce ==
  [][/\ plaintext # NoPlaintext => plaintext' = plaintext
     /\ \A n \in NumberSet :
          EncryptsNow(n)
            => /\ plaintext' # NoPlaintext
               /\ plaintext # NoPlaintext => plaintext' = plaintext
               /\ unpad(plaintext').bytes = messageBuffer
               /\ Len(plaintext') % BLOCK = BLOCK - 1]_vars

\* The plaintext has been passed to encrypt in a first attempt and a retry
\* for one number and in an attempt for another.
C28_Witness ==
  /\ plaintext # NoPlaintext
  /\ \E n, m \in DOMAIN snd :
       /\ n # m
       /\ snd[n].posts >= 2
       /\ snd[m].posts >= 1

\* ------------------------------------------------------------------------
\* Claims: the chain of addToQueue
\* ------------------------------------------------------------------------
\* Every task of the chain q has settled.
AllSettled(q) == \A k \in DOMAIN q : q[k].result # "pending"

\* A task is given to addToQueue in this step.
TaskAddedNow == Len(queue') = Len(queue) + 1

\* The tasks on the chain stay on it where they are, and a settled task
\* stays as it settled.
ChainKept ==
  /\ Len(queue') >= Len(queue)
  /\ \A k \in DOMAIN queue :
       /\ queue'[k].kind = queue[k].kind
       /\ queue'[k].req = queue[k].req
       /\ queue[k].result # "pending" => queue'[k] = queue[k]

\* A task starts, goes on or settles only when every task added before
\* it has settled.
RunsAfterItsPredecessors ==
  \A k \in DOMAIN queue :
    queue'[k] # queue[k]
      => \A j \in 1..(k - 1) : queue[j].result # "pending"

\* A new task is chained to this.pending, which is the promise of the
\* task added last or, when every task has settled, a resolved promise;
\* the only other change of this.pending is the reset of cleanup, made
\* when every task on the chain has settled.
ChainedToTheLast ==
  /\ TaskAddedNow
       => /\ pending' = Len(queue')
          /\ \/ pending = Len(queue) /\ pending > 0
             \/ pending = 0 /\ AllSettled(queue)
  /\ ~TaskAddedNow /\ pending' # pending
       => pending' = 0 /\ AllSettled(queue')

\* The next task can start or go on, or is waiting for a deletion of
\* handleEndSession that is under way.
NextTaskCanRun ==
  \/ ENABLED (\E env \in shapes : HandleEndSession(env) \/ RunEnvelopeTask(env))
  \/ /\ ~NotStarted(NextTask)
     /\ LET number == handleEnvelope(queue[NextTask].env).endSession[1]
        IN \E d \in DOMAIN storeSessions[number] :
             storeSessions[number][d] = "deleting"

\* Whatever the tasks before it settled as, an unsettled task is not stuck
\* when the event loop has no callback to run first.
ChainNotBlocked ==
  jobs = <<>> /\ ~AllSettled(queue) => NextTaskCanRun

\* C29: the tasks given to addToQueue run one after another in the order
\* in which they were added: a task starts only after the task before it
\* has settled; a task that rejects or times out does not keep a later
\* task from running; the reset of this.pending in cleanup neither drops
\* nor reorders a task that was queued.
C29_TasksRunOneAfterAnother ==
  /\ [][ChainKept /\ RunsAfterItsPredecessors /\ ChainedToTheLast]_vars
  /\ []ChainNotBlocked

\* A task timed out while it waited for handleEndSession, and the task
\* added after it has run and resolved.
C29_Witness ==
  /\ Len(queue) = 2
  /\ queue[1].result = "rejected"
  /\ "END_SESSION" \in queue[1].env.flags
  /\ queue[2].result = "resolved"
  /\ pending = 0

\* ------------------------------------------------------------------------
\* Claims: the retries of doSendMessage
\* ------------------------------------------------------------------------
\* This step is the answer, with a code of cs, to the POST of an attempt
\* of number n.
AnsweredNow(n, cs) ==
  /\ snd[n].pc = "post"
  /\ snd'[n].pc # "post"
  /\ snd'[n].lastCode \in cs

\* Number n is between a 409 to an attempt made with recurse = true and
\* the next call of doSendMessage.
RecoveringFrom409(n) ==
  /\ snd[n].pc \in {"recover", "keys"}
  /\ snd[n].lastCode = 409
  /\ snd[n].err.code = 409

\* This step registers one error for number n with a reason of reasons and
\* completes the number.
EndsWithErrorNow(n, reasons) ==
  /\ snd'[n].pc = "done"
  /\ Len(errors') = Len(errors) + 1
  /\ errors'[Len(errors')].number = n
  /\ errors'[Len(errors')].reason \in reasons
  /\ numbersCompleted' = numbersCompleted + 1
  /\ successfulNumbers' = successfulNumbers

\* The step of n neither registers an error nor completes a number.
GoesOnNow ==
  /\ errors' = errors
  /\ numbersCompleted' = numbersCompleted
  /\ successfulNumbers' = successfulNumbers

\* What the recovery from a 409 to an attempt made with recurse = true
\* does before it calls doSendMessage again: the extra devices are
\* removed, keys are fetched for the missing devices one after another,
\* and the next attempt is made with recurse = true for the devices the
\* Store then lists.
RecoveryOf409(n) ==
  /\ (AnsweredNow(n, {409}) /\ snd[n].recurse)
       => snd'[n].pc = "recover" /\ snd'[n].err.code = 409 /\ GoesOnNow
  /\ (RecoveringFrom409(n) /\ snd[n].pc = "recover" /\ snd'[n] # snd[n])
       => /\ snd'[n].pc = "keys"
          /\ snd'[n].recurse
          /\ snd'[n].todo = SetToSeq(snd[n].err.missing)
          /\ \A d \in AllDeviceIds :
               sessions'[n][d] = IF d \in snd[n].err.extra THEN "none"
                                 ELSE sessions[n][d]
          /\ GoesOnNow
  /\ (RecoveringFrom409(n) /\ snd[n].pc = "keys" /\ snd'[n] # snd[n])
       => /\ snd[n].todo # <<>>
            => snd'[n].fetched = Append(snd[n].fetched, Head(snd[n].todo))
          /\ snd'[n].pc = "keys" => snd'[n].recurse /\ GoesOnNow
          /\ snd'[n].pc = "encrypt"
               => /\ snd'[n].recurse
                  /\ snd'[n].fetched = SetToSeq(snd[n].err.missing)
                  /\ snd'[n].devs = {d \in AllDeviceIds :
                                       sessions[n][d] # "none"}
                  /\ snd'[n].devs \cap snd[n].err.extra = {}
                  /\ GoesOnNow

\* An attempt made with recurse = false that is answered 409 or 410 is
\* not retried: the retry-limit error is registered and the number is
\* completed, for good.
RetryLimit(n) ==
  /\ (AnsweredNow(n, {409, 410}) /\ ~snd[n].recurse)
       => EndsWithErrorNow(n, {ReasonRetryLimit})
  /\ snd[n].pc = "done" => snd'[n] = snd[n]

\* C30 (as stated): when an attempt made with recurse = true receives a
\* 409, the extra devices are removed, keys are refetched for the missing
\* devices and doSendMessage is retried with recurse = true; when an
\* attempt made with recurse = false receives a 409 or 410, no retry is
\* made, a 'Hit retry limit' error is registered and the number completed.
C30_RetryAfter409 ==
  [][\A n \in NumberSet :
       /\ RecoveryOf409(n)
       /\ RetryLimit(n)
       /\ (RecoveringFrom409(n) /\ snd'[n] # snd[n])
            => snd'[n].pc \in {"keys", "encrypt"}]_vars

\* C30 (amended): as stated, except that doSendMessage is retried only
\* when the refetch of the keys of the missing devices succeeds (a 404
\* for a device other than device 1 counts: the device is dropped) and
\* the Store then lists a device; otherwise the number ends with one
\* registered error and no retry.
C30_RetryAfter409UnlessKeysFail ==
  [][\A n \in NumberSet :
       /\ RecoveryOf409(n)
       /\ RetryLimit(n)
       /\ (RecoveringFrom409(n) /\ snd'[n] # snd[n])
            => \/ snd'[n].pc \in {"keys", "encrypt"}
               \/ /\ snd[n].pc = "keys"
                  /\ EndsWithErrorNow(n, {ReasonKeys, ReasonIdentity,
                                          ReasonEmptyList})]_vars

\* A retry made with recurse = true after a 409 was answered 409 and is
\* recovered again, and a retry made with recurse = false after a 410
\* was answered 409 and ended the number with the retry-limit error.
C30_Witness ==
  \E n, m \in NumberSet :
    /\ snd[n].posts >= 2
    /\ snd[n].first.resp.code = 409
    /\ snd[n].lastCode = 409
    /\ snd[n].pc = "recover"
    /\ snd[m].posts = 2
    /\ snd[m].first.resp.code = 410
    /\ snd[m].lastCode = 409
    /\ EndedInError(m)
    /\ ReasonsOf(m) = {ReasonRetryLimit}

\* ------------------------------------------------------------------------
\* Claims: getKeysForNumber with a device list
\* ------------------------------------------------------------------------
\* This step is one key fetch of number n, for the device at the head of
\* what is left of its list.
FetchesNow(n) ==
  /\ snd[n].pc = "keys"
  /\ snd[n].todo # <<>>
  /\ snd'[n] # snd[n]

\* The sessions of n other than that of device d stay as they are.
OtherSessionsKept(n, d) ==
  \A o \in AllDeviceIds \ {d} : sessions'[n][o] = sessions[n][o]

\* The fetch of this step fails with error: the error is thrown as it is,
\* no later device is fetched, no POST is made, and sendToNumber ends.
FetchFailsWith(n, error) ==
  /\ snd'[n].thrown = error
  /\ snd'[n].pc = "done"
  /\ snd'[n].todo = <<>>
  /\ snd'[n].posts = snd[n].posts
  /\ sessions' = sessions
  /\ EndsWithErrorNow(n, {ReasonKeys, ReasonIdentity})

\* C31: with a device list, getKeysForNumber fetches the devices one at a
\* time in the order of the list; a 404 for a device other than 1 removes
\* the session of that device and the rest of the list is still fetched;
\* a 404 for device 1 fails with UnregisteredUserError, no later device is
\* fetched and no POST is made; every other error is rethrown as it is.
C31_KeysFetchedInListOrder ==
  [][\A n \in NumberSet :
       /\ snd[n].pc = "done" => snd'[n] = snd[n]
       /\ FetchesNow(n)
            => LET d == Head(snd[n].todo)
                   a == snd'[n].answers[Len(snd'[n].answers)]
               IN /\ snd'[n].fetched = Append(snd[n].fetched, d)
                  /\ Len(snd'[n].answers) = Len(snd[n].answers) + 1
                  /\ a = "ok"
                       => /\ snd'[n].pc = "keys"
                          /\ snd'[n].todo = Tail(snd[n].todo)
                          /\ sessions'[n][d] = "open"
                          /\ OtherSessionsKept(n, d)
                          /\ GoesOnNow
                  /\ a = "404" /\ d # 1
                       => /\ snd'[n].pc = "keys"
                          /\ snd'[n].todo = Tail(snd[n].todo)
                          /\ sessions'[n][d] = "none"
                          /\ OtherSessionsKept(n, d)
                          /\ GoesOnNow
                  /\ a = "404" /\ d = 1
                       => FetchFailsWith(n, NamedError("UnregisteredUserError"))
                  /\ a = "500" => FetchFailsWith(n, HTTPError(500))
                  /\ a = "identity" => FetchFailsWith(n, IdentityKeyChanged)]_vars

\* The list [3, 2, 1] was fetched in that order: device 3 was answered 404
\* and removed, device 2 was fetched, and the 404 for device 1 ended the
\* send before any POST.
C31_Witness ==
  \E n \in NumberSet :
    /\ snd[n].fetched = <<3, 2, 1>>
    /\ snd[n].answers = <<"404", "ok", "404">>
    /\ sessions[n][3] = "none"
    /\ sessions[n][2] = "open"
    /\ snd[n].thrown = NamedError("UnregisteredUserError")
    /\ snd[n].pc = "done"
    /\ snd[n].posts = 0

\* ------------------------------------------------------------------------
\* Claims: the running count and the 'progress' events
\* ------------------------------------------------------------------------

\* Task k completes in this step.
CompletesNow(k) ==
  /\ k \in DOMAIN queue
  /\ queue[k].result = "pending"
  /\ queue'[k].result # "pending"

\* A task is put on the chain in this step.
QueuedNow == Len(queue') = Len(queue) + 1

\* A 'progress' event is dispatched in this step exactly when a task
\* completes whose count is a multiple of ten, and it carries that count.
ProgressAtMultiples ==
  LET done == {k \in DOMAIN queue : CompletesNow(k)}
      tens == {k \in done : queue[k].count % 10 = 0}
  IN IF tens = {}
       THEN progress' = progress
       ELSE \E k \in tens : progress' = Append(progress, queue[k].count)

\* The count of a task is one more than the count of the task queued
\* before it, the task of a queue/empty request has the count one, and a
\* connect() sets the count to zero.
CountRuns ==
  /\ QueuedNow =>
       /\ queue'[Len(queue')].count =
            IF queue'[Len(queue')].kind = "empty" THEN 1 ELSE count + 1
       /\ count' = queue'[Len(queue')].count
  /\ connects' # connects => count' = 0
  /\ ~QueuedNow /\ connects' = connects => count' = count

\* The requests so far are three messages followed by a queue/empty.
ThreeThenEmpty ==
  /\ Len(requests) = 4
  /\ \A i \in 1..3 : requests[i].path = "/api/v1/message"
  /\ requests[4].path = "/api/v1/queue/empty"

\* C32: a 'progress' event fires exactly when a task completes whose
\* running count is a multiple of 10 and it carries that count; the count
\* restarts from zero on connect() and when an 'empty' task is queued, so
\* that after three messages followed by queue/empty no 'progress' event
\* has fired.
C32_ProgressEveryTenTasks ==
  /\ [][ProgressAtMultiples /\ CountRuns]_vars
  /\ [](ThreeThenEmpty => progress = <<>>)

\* The tenth task since the connect has completed and its 'progress' event
\* carries 10, after a queue/empty or a reconnect has restarted the count
\* for later tasks.
C32_Witness ==
  /\ progress = <<10>>
  /\ Restarts = 1
  /\ count = 1
  /\ \A k \in DOMAIN queue : queue[k].result # "pending"

\* ------------------------------------------------------------------------
\* Claims: unpad on payloads that are not padded
\* ------------------------------------------------------------------------

\* The payload has a non-zero byte, and the last of them is not 0x80.
LastNonZeroIsNotTerminator ==
  \E i \in DOMAIN plaintext :
    /\ plaintext[i] \notin {0, TERMINATOR}
    /\ \A j \in DOMAIN plaintext : j > i => plaintext[j] = 0

\* The payload has no 0x80 byte.
NoTerminator == \A i \in DOMAIN plaintext : plaintext[i] # TERMINATOR

\* C33: unpad fails with 'Invalid padding' for every input whose last
\* non-zero byte is not 0x80, and for every input without any 0x80 byte,
\* an all-zero and an empty input included, it returns no plaintext.
C33_UnpadRejectsBadPadding ==
  unpadded # NotUnpadded =>
    /\ LastNonZeroIsNotTerminator => unpadded.kind = "Invalid padding"
    /\ NoTerminator => unpadded.kind # "plaintext"

\* unpad has failed on a payload that has a 0x80 byte, but not as its
\* last non-zero byte.
C33_Witness ==
  /\ unpadded.kind = "Invalid padding"
  /\ ~NoTerminator
  /\ Len(plaintext) > BLOCK

\* ------------------------------------------------------------------------
\* Claims: the registry of the worker's jobs
\* ------------------------------------------------------------------------

\* The ids given to the jobs so far.
JobIds == {futures[c].id : c \in DOMAIN futures}

\* The futures as they are when the future of job id is settled with to,
\* if it is still pending, and no other future is touched.
OnlySettles(id, to) ==
  /\ DOMAIN futures' = DOMAIN futures
  /\ \A c \in DOMAIN futures :
       futures'[c] =
         IF futures[c].id = id /\ futures[c].state = "pending"
           THEN [id |-> id, state |-> to]
           ELSE futures[c]

\* callWorker in this step: the job gets an id above every id given
\* before, an entry and a pending future.
JobMadeNow ==
  Len(futures') = Len(futures) + 1 =>
    LET made == futures'[Len(futures')]
    IN /\ \A id \in JobIds \cup workerJobs : made.id > id
       /\ made.state = "pending"
       /\ workerJobs' = workerJobs \cup {made.id}
       /\ SubSeq(futures', 1, Len(futures)) = futures

\* A timer fires in this step: the future of its job is rejected if it
\* was pending, and the registry is as before.
TimerFiredNow ==
  timers' # timers /\ timers' \subseteq timers =>
    \E id \in timers \ timers' :
      /\ OnlySettles(id, "timed out")
      /\ workerJobs' = workerJobs

\* onmessage runs in this step.
ReplyNow == reply' # reply \/ (workerJobs' # workerJobs /\ futures' # futures
                                /\ Len(futures') = Len(futures))

\* A reply for an id of the registry settles the future of that job and
\* of no other and removes the entry; a reply for another id throws,
\* settles nothing and removes nothing.
ReplyHandledNow ==
  ReplyNow =>
    IF reply'.id \in workerJobs
      THEN /\ ~reply'.threw
           /\ OnlySettles(reply'.id,
                IF reply'.error THEN "worker error" ELSE "resolved")
           /\ \E c \in DOMAIN futures : futures[c].id = reply'.id
           /\ workerJobs' = workerJobs \ {reply'.id}
      ELSE /\ reply'.threw
           /\ futures' = futures
           /\ workerJobs' = workerJobs

\* An entry leaves the registry only by a reply for its id.
EntryStaysUntilReply ==
  \A id \in workerJobs : id \notin workerJobs' => reply'.id = id /\ ReplyNow

\* C34: job ids are strictly increasing and never reused; a worker reply
\* settles exactly the future of the job with the same id and removes that
\* job's entry; the timeout rejects the future while the entry stays in
\* the registry until the reply arrives, after which the registry no
\* longer holds it; a reply for an id not in the registry raises an error
\* and settles no future.
C34_WorkerJobRegistry ==
  /\ [][JobMadeNow /\ TimerFiredNow /\ ReplyHandledNow
          /\ EntryStaysUntilReply]_vars
  /\ [](\A c, d \in DOMAIN futures : c < d => futures[c].id < futures[d].id)
  /\ [](reply # NoReply /\ ~reply.threw => reply.id \notin workerJobs)

\* A job has timed out with its entry still in the registry, and the late
\* reply has then removed the entry; a job made after it is still waiting.
C34_Witness ==
  \E c \in DOMAIN futures :
    /\ futures[c].state = "timed out"
    /\ reply = [id |-> futures[c].id, error |-> FALSE, threw |-> FALSE]
    /\ futures[c].id \notin workerJobs
    /\ \E d \in DOMAIN futures : d > c /\ futures[d].id \in workerJobs

\* ------------------------------------------------------------------------
\* Claims: the responses to a message request
\* ------------------------------------------------------------------------

MessageRequests ==
  {i \in DOMAIN requests : requests[i].path = "/api/v1/message"}

\* C35: every /api/v1/message request receives exactly one respond() call:
\* never a second one while its handler runs, one when the handler has
\* ended, and so never 200 and later also 500.
C35_OneRespondPerMessage ==
  \A i \in MessageRequests :
    /\ Len(requests[i].responses) <= 1
    /\ requests[i].stage = "done" => Len(requests[i].responses) = 1

\* ------------------------------------------------------------------------
\* Claims: the counts and the lists of an OutgoingMessage
\* ------------------------------------------------------------------------

\* How many times number n is in a list of successful numbers and in the
\* number fields of a list of errors.
TimesIn(n, succ, errs) ==
  Cardinality({j \in DOMAIN succ : succ[j] = n})
    + Cardinality({j \in DOMAIN errs : errs[j].number = n})

\* C36: in every reachable state numbersCompleted equals the size of
\* successfulNumbers plus the size of errors, and when the callback has
\* fired every recipient number appears exactly once across the
\* successfulNumbers and the number fields of the errors it was given.
C36_EveryNumberCompletedOnce ==
  /\ numbersCompleted = Len(successfulNumbers) + Len(errors)
  /\ callbackCalls > 0 =>
       /\ \A n \in NumberSet :
            TimesIn(n, callbackArg.successfulNumbers, callbackArg.errors) = 1
       /\ Len(callbackArg.successfulNumbers) + Len(callbackArg.errors)
            = Len(numbers)

\* The callback has fired for two numbers: one was sent, the other has an
\* error.
C36_Witness ==
  /\ callbackCalls = 1
  /\ Len(numbers) = 2
  /\ Len(callbackArg.successfulNumbers) = 1
  /\ Len(callbackArg.errors) = 1

\* ------------------------------------------------------------------------
\* Claims: cached envelopes before the envelopes of the socket
\* ------------------------------------------------------------------------

\* The tasks of the chain that dispatch an envelope received from the
\* socket.
SocketTasks == {k \in DOMAIN queue : queue[k].kind = "envelope"}

\* Every task of a cached envelope is on the chain before every task of an
\* envelope of the socket.
CachedTasksFirst == \A c \in CachedTasks, k \in SocketTasks : c < k

\* 'empty' has been dispatched only when queueAllCached has ended and the
\* task of every cached envelope has settled.
EmptyAfterCached ==
  (\E e \in DOMAIN events : events[e].type = "empty") =>
    /\ scan.pc = "done"
    /\ \A c \in CachedTasks : queue[c].result # "pending"

====
